---- MODULE Spec2Model ----
(***************************************************************************)
(* A model of the SwipeHire job scraper: the storage clients               *)
(* (SupabaseClient, PostgresClient), the background worker                 *)
(* (JobScraperWorker) and the keyword classifiers of the scrapers.         *)
(*                                                                         *)
(* Time is the wall clock in whole seconds (datetime.now()).  The two      *)
(* tables live in the hosted database and are modelled as sequences of     *)
(* rows in insertion order.  Every call that leaves the process (a select, *)
(* an insert, an update, a page request) gets its outcome from the         *)
(* environment: it answers, or it raises.                                  *)
(***************************************************************************)
EXTENDS Integers, Sequences, FiniteSets, TLC

VARIABLES
    backend,    \* which storage client is in use: "supabase" or "postgres"
    jobs,       \* the jobs table: a sequence of rows
    now,        \* the wall clock, in seconds
    last,       \* the frame of the last save_job / cleanup_old_jobs call
    logs,       \* the scraping_logs table: a sequence of rows
    next_id,    \* the next fresh value of uuid.uuid4()
    mode,       \* RUN_ONCE: "once" or "scheduler"
    cities,     \* JobScraperWorker.cities, as split from CITIES
    pc,         \* where the worker stands
    ci,         \* index of the city of the for loop of scrape_all_portals
    scraped,    \* `jobs` of scrape_all_portals: what scrape_jobs returned
    ji,         \* index in scraped of the job being saved
    saved_count,\* saved_count of the running _save_job_batch
    jobs_added, \* jobs_added of scrape_all_portals
    log_id,     \* log_id of scrape_all_portals
    next_run,   \* when the scheduled job is due (None: nothing scheduled)
    cycles,     \* number of scrape cycles finished
    runs,       \* history: the city scrapes of the cycle in progress
    faults,     \* number of calls the environment has made fail
    errlog,     \* number of warning and error records the logger has emitted
    env,        \* os.environ as main() finds it (None: the variable is not set)
    cls,        \* the keyword classifier under test, its text and its results
    agg,        \* JobScraper.scrape_all_sources: all_jobs, seen, unique_jobs
    parse,      \* SimpleScraper._parse_job_listing: the listing and the record
    scr,        \* scrape_jobs of either scraper: its arguments and its result
    sel,        \* JobScraper.scrape_craigslist: the selector loop
    batch,      \* JobScraperWorker._save_job_batch on a batch of its own
    drv,        \* JobScraper.driver and the entry point that runs it
    seed,       \* add_jobs_now.py: the posts of main and their answers
    port        \* scrape_all_portals: the batch loop on a city's jobs of its own

storeVars == <<backend, jobs, now, last>>

workerVars == <<logs, next_id, mode, cities, pc, ci, scraped, ji, saved_count,
                jobs_added, log_id, next_run, cycles, runs, faults, errlog, env>>

\* The state of the functions and scripts that run apart from the worker.
unitVars == <<agg, parse, scr, sel, batch, drv, seed, port>>

vars == <<backend, jobs, now, last, logs, next_id, mode, cities, pc, ci, scraped,
          ji, saved_count, jobs_added, log_id, next_run, cycles, runs, faults,
          errlog, env, cls, agg, parse, scr, sel, batch, drv, seed, port>>

-----------------------------------------------------------------------------
(* Bounds of the model *)

\* No call is made to the storage client once the clock has reached MaxTime.
MaxTime == 2

\* Number of distinct listing URLs.
NumUrls == 2

\* The environment makes at most MaxFaults calls of a worker run fail.
MaxFaults == 1

\* A worker run is followed through its first MaxCycles scrape cycles.
MaxCycles == 2

\* A classified text is made of at most MaxWords fragments.
MaxWords == 2

-----------------------------------------------------------------------------
(* Program constants *)

\* max_retries of SupabaseClient.save_job
max_retries == 3

\* time.sleep(2) between two attempts of SupabaseClient.save_job
RetrySleep == 2

-----------------------------------------------------------------------------
(* Values *)

None == "None"

Backends == {"supabase", "postgres"}

Urls == 1..NumUrls

Titles == {"cook", "driver"}

\* A job record as a scraper hands it to save_job (the fields the storage
\* client reads: job_url is the key, title stands for the payload).
JobData == [job_url : Urls, title : Titles]

\* What the environment can do to one attempt of save_job:
\*   ok                 every storage call of the attempt answers
\*   select_raises      the select raises
\*   insert_raises      the insert raises and stores nothing
\*   insert_lost_reply  the insert is stored, the reply is lost and the call raises
\*   insert_no_data     the insert answers with empty data and stores nothing
AttemptOutcomes(b) ==
    IF b = "supabase"
    THEN {"ok", "select_raises", "insert_raises", "insert_lost_reply", "insert_no_data"}
    ELSE {"ok", "select_raises", "insert_raises", "insert_lost_reply"}

\* What the environment can do to the update of cleanup_old_jobs.
UpdateOutcomes == {"ok", "update_raises", "update_lost_reply"}

Range(s) == {s[i] : i \in 1..Len(s)}

\* Mutant of SelectByUrl: the existence check finds nothing when the stored row
\* is inactive (a check restricted to active jobs).
SelectByUrl_active_only(tbl, url) ==
    {i \in 1..Len(tbl) : tbl[i].job_url = url /\ tbl[i].is_active}

\* select('id').eq('job_url', url) / SELECT id FROM jobs WHERE job_url = %s
SelectByUrl(tbl, url) == {i \in 1..Len(tbl) : tbl[i].job_url = url}

\* The row an insert stores at time t.
NewRow(job, t) ==
    [job_url    |-> job.job_url,
     title      |-> job.title,
     scraped_at |-> t,
     created_at |-> t,
     updated_at |-> t,
     is_active  |-> TRUE]

-----------------------------------------------------------------------------
(* SupabaseClient *)

\* Mutant of Supabase_attempt: the insert is made without the existence check.
Supabase_attempt_no_check(tbl, job, t, o) ==
    CASE o \in {"select_raises", "insert_raises"} -> [jobs |-> tbl, res |-> "raise"]
      [] o = "insert_lost_reply" -> [jobs |-> Append(tbl, NewRow(job, t)), res |-> "raise"]
      [] o = "insert_no_data"    -> [jobs |-> tbl, res |-> "Failed"]
      [] OTHER                   -> [jobs |-> Append(tbl, NewRow(job, t)), res |-> "True"]

\* One pass through the try block of SupabaseClient.save_job at time t under
\* environment outcome o: the table afterwards and "True" or "False" (the
\* value returned), "Failed" (False, returned after the warning about an
\* insert that gave no row back) or "raise" (an exception reached the except
\* clause).
Supabase_attempt(tbl, job, t, o) ==
    IF o = "select_raises"
    THEN [jobs |-> tbl, res |-> "raise"]
    ELSE IF SelectByUrl(tbl, job.job_url) # {}
    THEN [jobs |-> tbl, res |-> "False"]
    ELSE CASE o = "insert_raises"     -> [jobs |-> tbl, res |-> "raise"]
           [] o = "insert_lost_reply" -> [jobs |-> Append(tbl, NewRow(job, t)), res |-> "raise"]
           [] o = "insert_no_data"    -> [jobs |-> tbl, res |-> "Failed"]
           [] OTHER                   -> [jobs |-> Append(tbl, NewRow(job, t)), res |-> "True"]

\* Mutant of Supabase_on_exception: the except clause always sleeps and
\* continues, the give-up branch is missing.
Supabase_on_exception_always_retry(attempt) == "retry"

\* The except clause of SupabaseClient.save_job in attempt number `attempt`
\* (counted from 0): sleep and continue, or give up and return False.
Supabase_on_exception(attempt) ==
    IF attempt < max_retries - 1 THEN "retry" ELSE "return_false"

\* One iteration of the retry loop of SupabaseClient.save_job.  f is the
\* frame of the call (f.attempts iterations are behind it), o the
\* environment's outcome for this attempt.  Gives the frame, the table and
\* the clock after the iteration; f.pc = "returned" when the call is over,
\* and f.logged counts the warning and error records of the call.
Supabase_save_job_step(f, tbl, t, o) ==
    LET attempt == f.attempts
        a == Supabase_attempt(tbl, f.job, t, o)
        g == [f EXCEPT !.attempts = attempt + 1]
        return(r) == [frame |-> [g EXCEPT !.pc = "returned", !.ret = r,
                                          !.logged = IF a.res = "Failed" THEN @ + 1 ELSE @],
                      jobs |-> a.jobs, now |-> t]
    IN  IF a.res # "raise"
        THEN return(a.res = "True")
        ELSE \* both branches of the except clause log: a warning or an error
             LET h == [g EXCEPT !.raises = f.raises + 1, !.logged = @ + 1]
             IN  CASE Supabase_on_exception(attempt) = "retry" ->
                        \* time.sleep(2); continue -- and `return False` after
                        \* the loop when range(max_retries) is used up
                        [frame |-> IF attempt + 1 < max_retries
                                   THEN [h EXCEPT !.slept = Append(f.slept, RetrySleep)]
                                   ELSE [h EXCEPT !.slept = Append(f.slept, RetrySleep),
                                                  !.pc = "returned", !.ret = FALSE],
                         jobs |-> a.jobs, now |-> t + RetrySleep]
                   [] Supabase_on_exception(attempt) = "return_false" ->
                        [frame |-> [h EXCEPT !.pc = "returned", !.ret = FALSE],
                         jobs |-> a.jobs, now |-> t]
                   [] OTHER ->
                        [frame |-> [h EXCEPT !.pc = "returned", !.raised = TRUE],
                         jobs |-> a.jobs, now |-> t]

\* The rows an update of cleanup_old_jobs writes: is_active and updated_at
\* of the matched rows, nothing else.
MarkInactive(tbl, matched, t) ==
    [i \in 1..Len(tbl) |->
        IF i \in matched
        THEN [tbl[i] EXCEPT !.is_active = FALSE, !.updated_at = t]
        ELSE tbl[i]]

\* Mutant of Supabase_matched: lte instead of lt.
Supabase_matched_lte(tbl, cutoff) ==
    {i \in 1..Len(tbl) : tbl[i].scraped_at <= cutoff}

\* .lt('scraped_at', cutoff_date.isoformat())
Supabase_matched(tbl, cutoff) ==
    {i \in 1..Len(tbl) : tbl[i].scraped_at < cutoff}

Supabase_cleanup_old_jobs(tbl, cutoff, t, o) ==
    LET matched == Supabase_matched(tbl, cutoff)
    IN  CASE o = "update_raises"     -> [jobs |-> tbl, ret |-> 0, raised |-> FALSE,
                                         logged |-> 1]
          [] o = "update_lost_reply" -> [jobs |-> MarkInactive(tbl, matched, t), ret |-> 0,
                                         raised |-> FALSE, logged |-> 1]
          [] OTHER                   -> [jobs |-> MarkInactive(tbl, matched, t),
                                         ret |-> Cardinality(matched), raised |-> FALSE,
                                         logged |-> 0]

-----------------------------------------------------------------------------
(* PostgresClient *)

\* Mutant of Postgres_attempt: an upsert, a job already stored is written again.
Postgres_attempt_upsert(tbl, job, t, o) ==
    IF o = "select_raises"
    THEN [jobs |-> tbl, res |-> "raise"]
    ELSE IF SelectByUrl(tbl, job.job_url) # {}
    THEN [jobs |-> [i \in 1..Len(tbl) |->
                       IF tbl[i].job_url = job.job_url
                       THEN [NewRow(job, t) EXCEPT !.created_at = tbl[i].created_at]
                       ELSE tbl[i]],
          res |-> "False"]
    ELSE CASE o = "insert_raises"     -> [jobs |-> tbl, res |-> "raise"]
           [] o = "insert_lost_reply" -> [jobs |-> Append(tbl, NewRow(job, t)), res |-> "raise"]
           [] OTHER                   -> [jobs |-> Append(tbl, NewRow(job, t)), res |-> "True"]

\* The body of the try block of PostgresClient.save_job.  The insert names no
\* timestamp and no is_active: the columns take their defaults NOW() and TRUE.
Postgres_attempt(tbl, job, t, o) ==
    IF o = "select_raises"
    THEN [jobs |-> tbl, res |-> "raise"]
    ELSE IF SelectByUrl(tbl, job.job_url) # {}
    THEN [jobs |-> tbl, res |-> "False"]
    ELSE CASE o = "insert_raises"     -> [jobs |-> tbl, res |-> "raise"]
           [] o = "insert_lost_reply" -> [jobs |-> Append(tbl, NewRow(job, t)), res |-> "raise"]
           [] OTHER                   -> [jobs |-> Append(tbl, NewRow(job, t)), res |-> "True"]

\* PostgresClient.save_job: one attempt, an exception is logged and gives False.
Postgres_save_job_step(f, tbl, t, o) ==
    LET a == Postgres_attempt(tbl, f.job, t, o)
    IN  [frame |-> [f EXCEPT !.attempts = f.attempts + 1,
                             !.raises = IF a.res = "raise" THEN f.raises + 1 ELSE f.raises,
                             !.logged = IF a.res = "raise" THEN @ + 1 ELSE @,
                             !.pc = "returned",
                             !.ret = (a.res = "True")],
         jobs |-> a.jobs, now |-> t]

\* WHERE scraped_at < %s AND is_active = TRUE
Postgres_matched(tbl, cutoff) ==
    {i \in 1..Len(tbl) : tbl[i].scraped_at < cutoff /\ tbl[i].is_active}

Postgres_cleanup_old_jobs(tbl, cutoff, t, o) ==
    LET matched == Postgres_matched(tbl, cutoff)
    IN  CASE o = "update_raises"     -> [jobs |-> tbl, ret |-> 0, raised |-> FALSE,
                                         logged |-> 1]
          [] o = "update_lost_reply" -> [jobs |-> MarkInactive(tbl, matched, t), ret |-> 0,
                                         raised |-> FALSE, logged |-> 1]
          [] OTHER                   -> [jobs |-> MarkInactive(tbl, matched, t),
                                         ret |-> Cardinality(matched), raised |-> FALSE,
                                         logged |-> 0]

-----------------------------------------------------------------------------
(* Strings *)

UpperCase == "ABCDEFGHIJKLMNOPQRSTUVWXYZ"
LowerCase == "abcdefghijklmnopqrstuvwxyz"

Char(str, i) == SubSeq(str, i, i)

\* `k in str`: k occurs in str as a substring.
Contains(str, k) ==
    \E i \in 1..(Len(str) - Len(k) + 1) : SubSeq(str, i, i + Len(k) - 1) = k

LowerChar(c) ==
    IF \E i \in 1..26 : Char(UpperCase, i) = c
    THEN Char(LowerCase, CHOOSE i \in 1..26 : Char(UpperCase, i) = c)
    ELSE c

\* str.lower()
RECURSIVE Lower(_)
Lower(str) ==
    IF Len(str) = 0 THEN ""
    ELSE LowerChar(Char(str, 1)) \o Lower(SubSeq(str, 2, Len(str)))

\* str.strip(), for the blank as the only white space
RECURSIVE Strip(_)
Strip(str) ==
    IF Len(str) = 0 THEN ""
    ELSE IF Char(str, 1) = " " THEN Strip(SubSeq(str, 2, Len(str)))
    ELSE IF Char(str, Len(str)) = " " THEN Strip(SubSeq(str, 1, Len(str) - 1))
    ELSE str

\* str.split(',')
RECURSIVE SplitFrom(_, _, _)
SplitFrom(str, i, cur) ==
    IF i > Len(str) THEN <<cur>>
    ELSE IF Char(str, i) = "," THEN <<cur>> \o SplitFrom(str, i + 1, "")
    ELSE SplitFrom(str, i + 1, cur \o Char(str, i))

Split(str) == SplitFrom(str, 1, "")

Take_all(seq, n) == seq

\* seq[:n] for n >= 0
Take(seq, n) == SubSeq(seq, 1, IF n < Len(seq) THEN n ELSE Len(seq))

-----------------------------------------------------------------------------
(* SupabaseClient: the scraping_logs table *)

\* NULL in a timestamp or integer column of scraping_logs: the columns
\* log_scrape_start does not write.
Null == -1

LogInsertOutcomes == {"ok", "insert_raises", "insert_lost_reply", "insert_no_data"}

NewLogRow(id, portal_name, city, t) ==
    [id                  |-> id,
     portal_name         |-> portal_name,
     city                |-> city,
     scrape_started_at   |-> t,
     status              |-> "running",
     created_at          |-> t,
     scrape_completed_at |-> Null,
     jobs_found          |-> Null,
     jobs_added          |-> Null,
     error_message       |-> None]

\* Mutant of Supabase_log_scrape_start: no try/except around the insert.
Supabase_log_scrape_start_no_catch(tbl, portal_name, city, t, id, o) ==
    CASE o = "insert_raises"     -> [logs |-> tbl, ret |-> None, raised |-> TRUE, ids |-> 1,
                                     logged |-> 0]
      [] o = "insert_lost_reply" -> [logs |-> Append(tbl, NewLogRow(id, portal_name, city, t)),
                                     ret |-> None, raised |-> TRUE, ids |-> 1, logged |-> 0]
      [] o = "insert_no_data"    -> [logs |-> tbl, ret |-> id + 1, raised |-> FALSE, ids |-> 2,
                                     logged |-> 1]
      [] OTHER                   -> [logs |-> Append(tbl, NewLogRow(id, portal_name, city, t)),
                                     ret |-> id, raised |-> FALSE, ids |-> 1, logged |-> 0]

\* Mutant of Supabase_log_scrape_start: the except clause returns the id of
\* log_data instead of a fresh uuid.
Supabase_log_scrape_start_keeps_id(tbl, portal_name, city, t, id, o) ==
    CASE o = "insert_raises"     -> [logs |-> tbl, ret |-> id, raised |-> FALSE, ids |-> 1,
                                     logged |-> 1]
      [] o = "insert_lost_reply" -> [logs |-> Append(tbl, NewLogRow(id, portal_name, city, t)),
                                     ret |-> id, raised |-> FALSE, ids |-> 1, logged |-> 1]
      [] o = "insert_no_data"    -> [logs |-> tbl, ret |-> id + 1, raised |-> FALSE, ids |-> 2,
                                     logged |-> 1]
      [] OTHER                   -> [logs |-> Append(tbl, NewLogRow(id, portal_name, city, t)),
                                     ret |-> id, raised |-> FALSE, ids |-> 1, logged |-> 0]

\* SupabaseClient.log_scrape_start.  id is the uuid4 of log_data, id + 1 the
\* uuid4 of the dummy returned when the insert gave no row back; ids is the
\* number of uuids drawn, logged the number of warning and error records.
Supabase_log_scrape_start(tbl, portal_name, city, t, id, o) ==
    CASE o = "insert_raises"     -> [logs |-> tbl, ret |-> id + 1, raised |-> FALSE, ids |-> 2,
                                     logged |-> 1]
      [] o = "insert_lost_reply" -> [logs |-> Append(tbl, NewLogRow(id, portal_name, city, t)),
                                     ret |-> id + 1, raised |-> FALSE, ids |-> 2, logged |-> 1]
      [] o = "insert_no_data"    -> [logs |-> tbl, ret |-> id + 1, raised |-> FALSE, ids |-> 2,
                                     logged |-> 1]
      [] OTHER                   -> [logs |-> Append(tbl, NewLogRow(id, portal_name, city, t)),
                                     ret |-> id, raised |-> FALSE, ids |-> 1, logged |-> 0]

\* update(update_data): error_message is written only when it is given.
CompleteLogRow(row, jobs_found, added, status, error_message, t) ==
    [row EXCEPT !.scrape_completed_at = t,
                !.jobs_found = jobs_found,
                !.jobs_added = added,
                !.status = status,
                !.error_message = IF error_message # None THEN error_message ELSE @]

\* Mutant of LogRowsMatched: the update has no filter on the id.
LogRowsMatched_all(tbl, id) == 1..Len(tbl)

\* .eq('id', log_id)
LogRowsMatched(tbl, id) == {i \in 1..Len(tbl) : tbl[i].id = id}

\* Mutant of Supabase_log_scrape_completion: no try/except around the update.
Supabase_log_scrape_completion_no_catch(tbl, id, jobs_found, added, status, error_message, t, o) ==
    LET matched == LogRowsMatched(tbl, id)
        upd == [i \in 1..Len(tbl) |->
                   IF i \in matched
                   THEN CompleteLogRow(tbl[i], jobs_found, added, status, error_message, t)
                   ELSE tbl[i]]
    IN  CASE o = "update_raises"     -> [logs |-> tbl, ret |-> FALSE, raised |-> TRUE,
                                         logged |-> 0]
          [] o = "update_lost_reply" -> [logs |-> upd, ret |-> FALSE, raised |-> TRUE,
                                         logged |-> 0]
          [] OTHER                   -> [logs |-> upd, ret |-> matched # {}, raised |-> FALSE,
                                         logged |-> 0]

\* SupabaseClient.log_scrape_completion
Supabase_log_scrape_completion(tbl, id, jobs_found, added, status, error_message, t, o) ==
    LET matched == LogRowsMatched(tbl, id)
        upd == [i \in 1..Len(tbl) |->
                   IF i \in matched
                   THEN CompleteLogRow(tbl[i], jobs_found, added, status, error_message, t)
                   ELSE tbl[i]]
    IN  CASE o = "update_raises"     -> [logs |-> tbl, ret |-> FALSE, raised |-> FALSE,
                                         logged |-> 1]
          [] o = "update_lost_reply" -> [logs |-> upd, ret |-> FALSE, raised |-> FALSE,
                                         logged |-> 1]
          [] OTHER                   -> [logs |-> upd, ret |-> matched # {}, raised |-> FALSE,
                                         logged |-> 0]

-----------------------------------------------------------------------------
(* SimpleJobScraper *)

\* The keys of SimpleJobScraper.base_urls
base_urls == {"vancouver", "toronto", "calgary"}

\* categories of SimpleJobScraper.scrape_jobs
categories == <<"jjj", "sof", "sad", "fbh", "ret", "ofc", "lab", "med", "trp">>

\* time.sleep(random.uniform(1, 2)) between two categories, in whole seconds
\* (the lower end of the interval)
CategorySleep == 1

\* time.sleep(random.uniform(0.5, 1.5)) after each listing, in whole seconds
ListingSleep == 1

\* A category page as the environment serves it: the request raises (ok is
\* FALSE), or the page lists links, each parsed into a job.
FailedPage == [ok |-> FALSE, links |-> <<>>]

EmptyPage == [ok |-> TRUE, links |-> <<>>]

\* The page of category number k: pages lists what the environment serves for
\* the first categories, and every further category has no listing.
PageOf(pages, k) == IF k <= Len(pages) THEN pages[k] ELSE EmptyPage

\* SimpleJobScraper._scrape_category on a page: when the request raises the
\* exception is caught and logged and the list is empty, else the jobs parsed
\* from its listing links in page order, of which the first max_jobs links
\* are followed.
scrape_category(page, max_jobs) ==
    IF ~page.ok THEN [jobs |-> <<>>, logged |-> 1]
                ELSE [jobs |-> Take(page.links, max_jobs), logged |-> 0]

\* Mutant of scrape_jobs_from: max_jobs is ignored, every link the first
\* category lists is returned.
scrape_jobs_from_uncapped(found, pages, k, max_jobs, slept, logged) ==
    [jobs |-> PageOf(pages, 1).links, raised |-> FALSE, slept |-> CategorySleep,
     logged |-> IF PageOf(pages, 1).ok THEN 0 ELSE 1]

\* The for loop of SimpleJobScraper.scrape_jobs from category number k on.
RECURSIVE scrape_jobs_from(_, _, _, _, _, _)
scrape_jobs_from(found, pages, k, max_jobs, slept, logged) ==
    IF k > Len(categories) \/ Len(found) >= max_jobs
    THEN [jobs |-> Take(found, max_jobs), raised |-> FALSE, slept |-> slept,
          logged |-> logged]
    ELSE LET category == scrape_category(PageOf(pages, k), max_jobs - Len(found))
         IN  scrape_jobs_from(found \o category.jobs, pages, k + 1, max_jobs,
                              slept + Len(category.jobs) * ListingSleep + CategorySleep,
                              logged + category.logged)

\* SimpleJobScraper.scrape_jobs: a city without base url is logged as not
\* supported and gives no job.
scrape_jobs(city, max_jobs, pages) ==
    IF city \notin base_urls
    THEN [jobs |-> <<>>, raised |-> FALSE, slept |-> 0, logged |-> 1]
    ELSE scrape_jobs_from(<<>>, pages, 1, max_jobs, 0, 0)

-----------------------------------------------------------------------------
(* The storage client in use *)

save_job_step(b, f, tbl, t, o) ==
    IF b = "supabase" THEN Supabase_save_job_step(f, tbl, t, o)
                      ELSE Postgres_save_job_step(f, tbl, t, o)

cleanup_old_jobs(b, tbl, cutoff, t, o) ==
    IF b = "supabase" THEN Supabase_cleanup_old_jobs(tbl, cutoff, t, o)
                      ELSE Postgres_cleanup_old_jobs(tbl, cutoff, t, o)

\* The frame of a storage-client call: what it was called with (op, job,
\* cutoff), the table and the clock when it was entered (before, at), where
\* it stands (pc: "running" or "returned") and what it did and returned.
NoCall ==
    [op |-> "none", job |-> None, cutoff |-> None, before |-> <<>>, at |-> 0,
     pc |-> "returned", ret |-> None, raised |-> FALSE,
     attempts |-> 0, raises |-> 0, slept |-> <<>>, logged |-> 0]

EnterSaveJob(job, tbl, t) ==
    [NoCall EXCEPT !.op = "save_job", !.job = job, !.before = tbl, !.at = t,
                   !.pc = "running"]

\* One attempt of the save_job call in progress, under outcome o.
SaveJobAttempt(o) ==
    /\ last.op = "save_job"
    /\ last.pc = "running"
    /\ LET r == save_job_step(backend, last, jobs, now, o)
       IN  /\ last' = r.frame
           /\ jobs' = r.jobs
           /\ now' = r.now

-----------------------------------------------------------------------------
(* SpecStore: a storage client called with any job and any cutoff, one call *)
(* at a time (the worker is single-threaded).                               *)

\* The classifier variable while no classifier is under test.
NoClassifier == [scraper |-> None, field |-> None, text |-> "", out |-> <<>>]

\* The worker's variables before the worker is started.
\* os.environ before main() has read it.
NoEnv ==
    [CITIES |-> None, RUN_ONCE |-> None, SUPABASE_URL |-> None,
     SUPABASE_ANON_KEY |-> None, DATABASE_URL |-> None]

\* os.getenv(name, default)
Getenv(environ, name, default) ==
    IF environ[name] = None THEN default ELSE environ[name]

Supabase_init_url_only(environ) ==
    [raised |-> IF Getenv(environ, "SUPABASE_URL", None) \in {None, ""}
                THEN "ValueError" ELSE None]

\* SupabaseClient.__init__: the exception raised (None: the client is
\* constructed).
Supabase_init(environ) ==
    LET supabase_url == Getenv(environ, "SUPABASE_URL", None)
        supabase_key == Getenv(environ, "SUPABASE_ANON_KEY", None)
    IN  [raised |-> IF supabase_url \in {None, ""} \/ supabase_key \in {None, ""}
                    THEN "ValueError" ELSE None]

\* PostgresClient.__init__: psycopg2.connect is reached with a DATABASE_URL
\* only, and raises when the server cannot be reached.
Postgres_init(environ, connect) ==
    LET database_url == Getenv(environ, "DATABASE_URL", None)
    IN  [raised |-> IF database_url \in {None, ""} THEN "ValueError"
                    ELSE IF connect # "ok" THEN "OperationalError"
                    ELSE None,
         connects |-> IF database_url \in {None, ""} THEN 0 ELSE 1]

\* os.getenv('RUN_ONCE', 'false') compared as it stands
run_once_case_sensitive(environ) == Getenv(environ, "RUN_ONCE", "false") = "true"

\* os.getenv('RUN_ONCE', 'false').lower() == 'true'
run_once(environ) == Lower(Getenv(environ, "RUN_ONCE", "false")) = "true"

\* Nothing has been called yet.
Idle == [pc |-> "idle"]

UnitsIdle ==
    /\ agg = Idle
    /\ parse = Idle
    /\ scr = Idle
    /\ sel = Idle
    /\ batch = Idle
    /\ drv = Idle
    /\ seed = Idle
    /\ port = Idle

WorkerIdle ==
    /\ logs = <<>>
    /\ next_id = 1
    /\ mode = None
    /\ cities = <<>>
    /\ pc = "start"
    /\ ci = 0
    /\ scraped = <<>>
    /\ ji = 0
    /\ saved_count = 0
    /\ jobs_added = 0
    /\ log_id = None
    /\ next_run = None
    /\ cycles = 0
    /\ runs = <<>>
    /\ faults = 0
    /\ errlog = 0
    /\ env = NoEnv

InitStore ==
    /\ backend \in Backends
    /\ jobs = <<>>
    /\ now = 0
    /\ last = NoCall
    /\ WorkerIdle
    /\ cls = NoClassifier
    /\ UnitsIdle

StoreSaveJob ==
    /\ last.pc = "returned"
    /\ now < MaxTime
    /\ \E job \in JobData : last' = EnterSaveJob(job, jobs, now)
    /\ UNCHANGED <<backend, jobs, now>>
    /\ UNCHANGED workerVars
    /\ UNCHANGED cls
    /\ UNCHANGED unitVars

StoreSaveJobAttempt ==
    /\ \E o \in AttemptOutcomes(backend) : SaveJobAttempt(o)
    /\ UNCHANGED backend
    /\ UNCHANGED workerVars
    /\ UNCHANGED cls
    /\ UNCHANGED unitVars

StoreCleanup ==
    /\ last.pc = "returned"
    /\ now < MaxTime
    /\ \E cutoff \in 0..(MaxTime + 1), o \in UpdateOutcomes :
          LET r == cleanup_old_jobs(backend, jobs, cutoff, now, o)
          IN  /\ jobs' = r.jobs
              /\ last' = [NoCall EXCEPT !.op = "cleanup_old_jobs", !.cutoff = cutoff,
                                        !.before = jobs, !.at = now, !.ret = r.ret,
                                        !.raised = r.raised, !.attempts = 1,
                                        !.raises = IF o = "ok" THEN 0 ELSE 1,
                                        !.logged = r.logged]
    /\ UNCHANGED <<backend, now>>
    /\ UNCHANGED workerVars
    /\ UNCHANGED cls
    /\ UNCHANGED unitVars

\* Time passes between two calls.
StoreTick ==
    /\ last.pc = "returned"
    /\ now < MaxTime
    /\ now' = now + 1
    /\ UNCHANGED <<backend, jobs, last>>
    /\ UNCHANGED workerVars
    /\ UNCHANGED cls
    /\ UNCHANGED unitVars

NextStore == StoreSaveJob \/ StoreSaveJobAttempt \/ StoreCleanup \/ StoreTick

SpecStore == InitStore /\ [][NextStore]_vars

-----------------------------------------------------------------------------
(* Spec: the background worker, JobScraperWorker of main.py, on the         *)
(* SupabaseClient.                                                          *)

\* batch_size of scrape_all_portals
batch_size == 5

\* time.sleep(1) after a save of _save_job_batch
SaveSleep == 1

\* time.sleep(5) between two batches
BatchSleep == 5

\* time.sleep(60) of the polling loop
PollSleep == 60

\* timedelta(days=30) of JobScraperWorker.cleanup_old_jobs
RetentionDays == 30

\* int(os.getenv('SCRAPE_INTERVAL_HOURS', '6'))
scrape_interval == 6

\* int(os.getenv('MAX_JOBS_PER_CITY', ...)), with MAX_JOBS_PER_CITY set to 1
max_jobs_per_city == 1

\* The listings the site shows during a worker run.
SiteUrls == {1, 2}

\* The values of CITIES the worker is started with.
CitiesEnv == {"vancouver,toronto", " Calgary ,atlantis"}

\* os.getenv('CITIES', 'vancouver,toronto,calgary')
DefaultCities == "vancouver,toronto,calgary"

SupabaseUrl == "https://swipehire.supabase.co"

\* The environments the worker is started in: four with the configuration of
\* the storage client, and those without it.
Configured(cities_env, run_once_env, database_url) ==
    [CITIES |-> cities_env, RUN_ONCE |-> run_once_env, SUPABASE_URL |-> SupabaseUrl,
     SUPABASE_ANON_KEY |-> "anon-key", DATABASE_URL |-> database_url]

Environments ==
    {Configured("vancouver,toronto", "true", None),
     Configured(" Calgary ,atlantis", "True", "postgres://db/swipehire"),
     Configured("vancouver,toronto", None, "postgres://db/swipehire"),
     Configured(" Calgary ,atlantis", "1", ""),
     [Configured("vancouver,toronto", "true", None) EXCEPT !.SUPABASE_URL = None],
     [Configured("vancouver,toronto", None, "") EXCEPT !.SUPABASE_ANON_KEY = None],
     [Configured(" Calgary ,atlantis", "True", "postgres://db/swipehire")
         EXCEPT !.SUPABASE_URL = ""],
     [Configured(" Calgary ,atlantis", "1", None) EXCEPT !.SUPABASE_ANON_KEY = ""],
     [NoEnv EXCEPT !.DATABASE_URL = "postgres://db/swipehire"]}

\* The title a listing shows (a listing's page is the same at every visit).
TitleOf(url) == IF url % 2 = 1 THEN "cook" ELSE "driver"

Listing(url) == [job_url |-> url, title |-> TitleOf(url)]

\* The sequences of distinct elements of S.
RECURSIVE Arrangements(_)
Arrangements(S) ==
    {<<>>} \cup UNION {{<<x>> \o q : q \in Arrangements(S \ {x})} : x \in S}

\* What the first category page of a city can be: the request fails, or the
\* page lists some of the listings, each once.
Pages ==
    {FailedPage} \cup
    {[ok |-> TRUE, links |-> q] : q \in Arrangements({Listing(u) : u \in SiteUrls})}

Count(failed) == IF failed THEN 1 ELSE 0

\* The entries of CITIES, before normalisation.
RawCities == UNION {Range(Split(c)) : c \in CitiesEnv}

\* city.strip().lower(), tabulated over the configured entries
NormalizeTable == [raw \in RawCities |-> Lower(Strip(raw))]

NormalizeCity(raw) == NormalizeTable[raw]

\* self.scrapers['craigslist'].scrape_jobs(city=city, max_jobs=...), tabulated
\* over the configured cities and what the site can serve
ScrapeTable ==
    [city \in {NormalizeCity(raw) : raw \in RawCities}, page \in Pages |->
        scrape_jobs(city, max_jobs_per_city, <<page>>)]

\* Mutant of save_job_batch_step: every save that does not raise is counted.
save_job_batch_step_counts_false(ret, raised) ==
    IF raised
    THEN [saved |-> 0, sleep |-> 0, logged |-> 1]
    ELSE [saved |-> 1, sleep |-> SaveSleep, logged |-> 0]

\* _save_job_batch, one iteration of its loop, given how save_job ended:
\* what is added to saved_count and how long it sleeps.
save_job_batch_step(ret, raised) ==
    IF raised
    THEN [saved |-> 0, sleep |-> 0, logged |-> 1]
    ELSE [saved |-> IF ret THEN 1 ELSE 0, sleep |-> SaveSleep, logged |-> 0]

\* The entry of the history for a city scrape: the city, the uuid4 drawn
\* for the row (id), the id log_scrape_start returned (log_id), what the
\* environment did to the insert (start), the position of the row inserted (0
\* when none was), the clock and the fault count at the start, whether the
\* request for the listing page of the city raised (request_failed); and, once the
\* iteration of the city has ended (done), what was passed to
\* log_scrape_completion, when, and what the environment did to its update.
NewRun(city, id, start, o, page) ==
    [city |-> city, id |-> id, log_id |-> start.ret, start |-> o,
     row |-> IF Len(start.logs) > Len(logs) THEN Len(start.logs) ELSE 0,
     started_at |-> now, faults_before |-> faults,
     request_failed |-> city \in base_urls /\ ~page.ok, done |-> FALSE,
     found |-> None, added |-> None, status |-> None, error_message |-> None,
     completion |-> None, completed_at |-> None]

\* The entry of a city scrape whose iteration has ended.
EndRun(run, found, added, status, error_message, o, t) ==
    [run EXCEPT !.done = TRUE, !.found = found, !.added = added, !.status = status,
                !.error_message = error_message, !.completion = o, !.completed_at = t]

Init ==
    /\ backend = "supabase"
    /\ jobs = <<>>
    /\ now = 0
    /\ last = NoCall
    /\ WorkerIdle
    /\ cls = NoClassifier
    /\ UnitsIdle

\* main(): JobScraperWorker() constructs the storage client, which raises
\* ValueError without its configuration, and reads the configuration;
\* RUN_ONCE decides between run_once and run_scheduler.
Main ==
    /\ pc = "start"
    /\ mode = None
    /\ \E e \in Environments :
          /\ env' = e
          /\ IF Supabase_init(e).raised # None
             THEN /\ pc' = "startup_error"
                  /\ UNCHANGED <<cities, mode>>
             ELSE /\ cities' = Split(Getenv(e, "CITIES", DefaultCities))
                  /\ mode' = IF run_once(e) THEN "once" ELSE "scheduler"
                  /\ pc' = "main"
    /\ UNCHANGED <<backend, jobs, now, last, logs, next_id, ci, scraped, ji,
                   saved_count, jobs_added, log_id, next_run, cycles, runs, faults,
                   errlog, cls>>
    /\ UNCHANGED unitVars

\* The head of scrape_all_portals.
StartCycle ==
    /\ pc' = "city"
    /\ ci' = 1
    /\ runs' = <<>>

\* run_once up to the first city of scrape_all_portals.
RunOnce ==
    /\ pc = "main"
    /\ mode = "once"
    /\ StartCycle
    /\ UNCHANGED <<backend, jobs, now, last, logs, next_id, mode, cities, scraped, ji,
                   saved_count, jobs_added, log_id, next_run, cycles, faults,
                   errlog, cls>>
    /\ UNCHANGED <<env, unitVars>>

\* run_scheduler up to the first city of the initial scrape:
\* schedule.every(scrape_interval).hours.do(...) makes the job due in
\* scrape_interval hours.
RunScheduler ==
    /\ pc = "main"
    /\ mode = "scheduler"
    /\ next_run' = now + scrape_interval * 3600
    /\ StartCycle
    /\ UNCHANGED <<backend, jobs, now, last, logs, next_id, mode, cities, scraped, ji,
                   saved_count, jobs_added, log_id, cycles, faults, errlog, cls>>
    /\ UNCHANGED <<env, unitVars>>

\* The except clause of the for loop of scrape_all_portals: the error is
\* logged and the run is completed as failed.  Gives the logs table, the
\* records logged and whether the handler raised.
on_city_exception(tbl, id, error_message, t, o) ==
    LET c == Supabase_log_scrape_completion(tbl, id, 0, 0, "failed", error_message, t, o)
    IN  [c EXCEPT !.logged = @ + 1]

\* Mutant of AfterCity: the loop over the cities ends after its first
\* iteration.
AfterCity_break(i) == "cleanup"

\* After the body of the for loop: the next city, or the end of the loop.
AfterCity(i) == IF i < Len(cities) THEN "city" ELSE "cleanup"

\* One city of scrape_all_portals, up to the saving of its jobs:
\* log_scrape_start, then scrape_jobs.  o is what the environment does to the
\* insert of the log row, page what it serves for the first category (no page
\* is requested for a city without base url), oh what it does to the update
\* of the except clause.
ScrapeCity ==
    /\ pc = "city"
    /\ \E o \in LogInsertOutcomes, page \in Pages, oh \in UpdateOutcomes :
          LET city    == NormalizeCity(cities[ci])
              start   == Supabase_log_scrape_start(logs, "craigslist", city, now, next_id, o)
              res     == ScrapeTable[city, page]
              t       == now + res.slept
              run     == NewRun(city, next_id, start, o, page)
              h       == on_city_exception(start.logs, start.ret, "error", t, oh)
              handled == ~start.raised /\ res.raised
              failed  == Count(o # "ok") + Count(city \in base_urls /\ ~page.ok)
                         + Count(handled /\ oh # "ok")
          IN  /\ city \notin base_urls => page = EmptyPage
              /\ ~handled => oh = "ok"
              /\ faults + failed <= MaxFaults
              /\ faults' = faults + failed
              /\ next_id' = next_id + start.ids
              /\ IF start.raised
                 THEN \* outside the try: the exception leaves scrape_all_portals
                      /\ pc' = "crashed"
                      /\ logs' = start.logs
                      /\ errlog' = errlog + start.logged
                      /\ UNCHANGED <<now, ci, scraped, ji, saved_count, jobs_added,
                                     log_id, runs>>
                 ELSE /\ log_id' = start.ret
                      /\ now' = t
                      /\ IF res.raised
                         THEN /\ logs' = h.logs
                              /\ errlog' = errlog + start.logged + res.logged + h.logged
                              /\ pc' = IF h.raised THEN "crashed" ELSE AfterCity(ci)
                              /\ ci' = IF h.raised THEN ci ELSE ci + 1
                              /\ runs' = Append(runs, EndRun(run, 0, 0, "failed", "error", oh, t))
                              /\ UNCHANGED <<scraped, ji, saved_count, jobs_added>>
                         ELSE /\ logs' = start.logs
                              /\ errlog' = errlog + start.logged + res.logged
                              /\ scraped' = res.jobs
                              /\ jobs_added' = 0
                              /\ saved_count' = 0
                              /\ ji' = 1
                              /\ pc' = IF Len(res.jobs) = 0 THEN "complete" ELSE "save"
                              /\ runs' = Append(runs, run)
                              /\ UNCHANGED ci
    /\ UNCHANGED <<backend, jobs, last, mode, cities, next_run, cycles, cls>>
    /\ UNCHANGED <<env, unitVars>>

\* _save_job_batch: self.db.save_job(job) is entered for the next job.
SaveJobCall ==
    /\ pc = "save"
    /\ last' = EnterSaveJob(scraped[ji], jobs, now)
    /\ pc' = "saving"
    /\ UNCHANGED <<backend, jobs, now, logs, next_id, mode, cities, ci, scraped, ji,
                   saved_count, jobs_added, log_id, next_run, cycles, runs, faults,
                   errlog, cls>>
    /\ UNCHANGED <<env, unitVars>>

\* Whether outcome o makes a storage request of an attempt fail: the select
\* is always made, the insert only for a job_url that is not stored.
AttemptFails(tbl, job, o) ==
    \/ o = "select_raises"
    \/ o # "ok" /\ SelectByUrl(tbl, job.job_url) = {}

\* An attempt of the save_job call the worker is in.
WorkerSaveJobAttempt ==
    /\ pc = "saving"
    /\ \E o \in AttemptOutcomes(backend) :
          LET failed == Count(AttemptFails(jobs, last.job, o))
          IN  /\ o # "ok" => failed = 1
              /\ faults + failed <= MaxFaults
              /\ faults' = faults + failed
              /\ SaveJobAttempt(o)
              /\ errlog' = errlog + (last'.logged - last.logged)
    /\ UNCHANGED <<backend, logs, next_id, mode, cities, pc, ci, scraped, ji,
                   saved_count, jobs_added, log_id, next_run, cycles, runs, cls>>
    /\ UNCHANGED <<env, unitVars>>

\* save_job has returned: the rest of the iteration of _save_job_batch and,
\* after the last job of a batch, the rest of the iteration of the batch loop
\* of scrape_all_portals.  The frame of the call is gone.
SaveJobReturn ==
    /\ pc = "saving"
    /\ last.pc = "returned"
    /\ LET step      == save_job_batch_step(last.ret, last.raised)
           saved     == saved_count + step.saved
           batch_end == (ji % batch_size = 0) \/ (ji = Len(scraped))
           more      == ji < Len(scraped)
       IN  /\ saved_count' = IF batch_end THEN 0 ELSE saved
           /\ jobs_added' = IF batch_end THEN jobs_added + saved ELSE jobs_added
           /\ now' = now + step.sleep + (IF batch_end /\ more THEN BatchSleep ELSE 0)
           /\ errlog' = errlog + step.logged
           /\ ji' = ji + 1
           /\ pc' = IF more THEN "save" ELSE "complete"
    /\ last' = NoCall
    /\ UNCHANGED <<backend, jobs, logs, next_id, mode, cities, ci, scraped,
                   log_id, next_run, cycles, runs, faults, cls>>
    /\ UNCHANGED <<env, unitVars>>

\* The end of the try block of a city: log_scrape_completion with status
\* 'completed'; when it raises, the except clause logs the run as failed.
\* The names of the iteration (jobs, jobs_added, log_id) are not read again
\* before they are assigned.
CompleteCity ==
    /\ pc = "complete"
    /\ \E o \in UpdateOutcomes, oh \in UpdateOutcomes :
          LET c == Supabase_log_scrape_completion(logs, log_id, Len(scraped), jobs_added,
                                                  "completed", None, now, o)
              h == on_city_exception(c.logs, log_id, "error", now, oh)
              r == IF c.raised THEN h ELSE c
              failed == Count(o # "ok") + Count(c.raised /\ oh # "ok")
          IN  /\ ~c.raised => oh = "ok"
              /\ faults + failed <= MaxFaults
              /\ faults' = faults + failed
              /\ errlog' = errlog + c.logged + (IF c.raised THEN h.logged ELSE 0)
              /\ logs' = r.logs
              /\ pc' = IF r.raised THEN "crashed" ELSE AfterCity(ci)
              /\ ci' = IF r.raised THEN ci ELSE ci + 1
              /\ runs' = [runs EXCEPT ![Len(runs)] =
                            IF c.raised
                            THEN EndRun(@, 0, 0, "failed", "error", oh, now)
                            ELSE EndRun(@, Len(scraped), jobs_added, "completed", None,
                                        o, now)]
    /\ scraped' = <<>>
    /\ ji' = 0
    /\ jobs_added' = 0
    /\ log_id' = None
    /\ UNCHANGED <<backend, jobs, now, last, next_id, mode, cities, saved_count,
                   next_run, cycles, cls>>
    /\ UNCHANGED <<env, unitVars>>

\* Mutant of cleanup_cutoff: the cutoff is the current time.
cleanup_cutoff_now(t) == t

\* cutoff_date = datetime.now() - timedelta(days=30), in seconds
cleanup_cutoff(t) == t - RetentionDays * 86400

\* JobScraperWorker.cleanup_old_jobs: the cutoff is 30 days back, and an
\* exception of the storage client is caught and logged.
worker_cleanup_old_jobs(tbl, t, o) ==
    LET r == cleanup_old_jobs(backend, tbl, cleanup_cutoff(t), t, o)
    IN  [r EXCEPT !.raised = FALSE, !.logged = IF r.raised THEN @ + 1 ELSE @]

\* The end of scrape_all_portals: cleanup_old_jobs.  Then run_once returns,
\* and the scheduler goes (back) to its polling loop; a cycle run by
\* run_pending is due again scrape_interval hours after it ended.
CleanupOldJobs ==
    /\ pc = "cleanup"
    /\ \E o \in UpdateOutcomes :
          LET r == worker_cleanup_old_jobs(jobs, now, o)
              failed == Count(o # "ok")
          IN  /\ faults + failed <= MaxFaults
              /\ faults' = faults + failed
              /\ errlog' = errlog + r.logged
              /\ jobs' = r.jobs
              /\ last' = [NoCall EXCEPT !.op = "cleanup_old_jobs",
                                        !.cutoff = cleanup_cutoff(now),
                                        !.before = jobs, !.at = now, !.ret = r.ret,
                                        !.raised = r.raised, !.attempts = 1,
                                        !.raises = IF o = "ok" THEN 0 ELSE 1,
                                        !.logged = r.logged]
              /\ pc' = IF r.raised THEN "crashed"
                       ELSE IF mode = "once" THEN "exited" ELSE "poll"
    /\ cycles' = cycles + 1
    /\ next_run' = IF mode = "scheduler" /\ cycles > 0
                   THEN now + scrape_interval * 3600
                   ELSE next_run
    /\ UNCHANGED <<backend, now, logs, next_id, mode, cities, ci, scraped, ji,
                   saved_count, jobs_added, log_id, runs, cls>>
    /\ UNCHANGED <<env, unitVars>>

\* The iterations of `while True: run_pending(); sleep(60)` in which nothing
\* is due, taken together: the clock goes on in steps of 60 seconds until
\* the job is due.
PollIdle ==
    /\ pc = "poll"
    /\ now < next_run
    /\ now' = now + PollSleep * (((next_run - now) + PollSleep - 1) \div PollSleep)
    /\ UNCHANGED <<backend, jobs, last, logs, next_id, mode, cities, pc, ci, scraped, ji,
                   saved_count, jobs_added, log_id, next_run, cycles, runs, faults,
                   errlog, cls>>
    /\ UNCHANGED <<env, unitVars>>

\* run_pending finds the job due and runs scrape_all_portals.
PollRun ==
    /\ pc = "poll"
    /\ now >= next_run
    /\ cycles < MaxCycles
    /\ StartCycle
    /\ UNCHANGED <<backend, jobs, now, last, logs, next_id, mode, cities, scraped, ji,
                   saved_count, jobs_added, log_id, next_run, cycles, faults,
                   errlog, cls>>
    /\ UNCHANGED <<env, unitVars>>

Next ==
    \/ Main
    \/ RunOnce
    \/ RunScheduler
    \/ ScrapeCity
    \/ SaveJobCall
    \/ WorkerSaveJobAttempt
    \/ SaveJobReturn
    \/ CompleteCity
    \/ CleanupOldJobs
    \/ PollIdle
    \/ PollRun

Spec == Init /\ [][Next]_vars

-----------------------------------------------------------------------------
(* The keyword classifiers of SimpleJobScraper and CraigslistScraper *)

\* any(term in description for term in terms)
AnyIn(description, terms) ==
    \E i \in 1..Len(terms) : Contains(description, terms[i])

\* The term lists of _extract_job_type, in the order of its branches.
FullTimeTerms   == <<"full-time", "full time", "fulltime">>

PartTimeTerms   == <<"part-time", "part time", "parttime">>

ContractTerms   == <<"contract", "contractor", "freelance">>

InternshipTerms == <<"intern", "internship">>

\* The term lists of _extract_experience_level, in the order of its branches.
SeniorTerms == <<"senior", "lead", "principal", "5+ years", "5 years">>

EntryTerms  == <<"junior", "entry", "entry-level", "new grad", "recent grad">>

MidTerms    == <<"mid", "intermediate", "2-3 years", "3+ years">>

\* Mutant of Simple_extract_job_type: the else branch returns no class.
Simple_extract_job_type_no_default(description) ==
    IF AnyIn(description, FullTimeTerms) THEN "full-time"
    ELSE IF AnyIn(description, PartTimeTerms) THEN "part-time"
    ELSE IF AnyIn(description, ContractTerms) THEN "contract"
    ELSE IF AnyIn(description, InternshipTerms) THEN "internship"
    ELSE "unknown"

\* SimpleJobScraper._extract_job_type: the terms are looked for in the
\* description as it is passed.
Simple_extract_job_type(description) ==
    IF AnyIn(description, FullTimeTerms) THEN "full-time"
    ELSE IF AnyIn(description, PartTimeTerms) THEN "part-time"
    ELSE IF AnyIn(description, ContractTerms) THEN "contract"
    ELSE IF AnyIn(description, InternshipTerms) THEN "internship"
    ELSE "full-time"

\* Mutant of Simple_extract_experience_level: the third class is named
\* 'mid-senior'.
Simple_extract_experience_level_mid_senior(description) ==
    IF AnyIn(description, SeniorTerms) THEN "senior"
    ELSE IF AnyIn(description, EntryTerms) THEN "entry"
    ELSE IF AnyIn(description, MidTerms) THEN "mid-senior"
    ELSE "mid-senior"

\* SimpleJobScraper._extract_experience_level
Simple_extract_experience_level(description) ==
    IF AnyIn(description, SeniorTerms) THEN "senior"
    ELSE IF AnyIn(description, EntryTerms) THEN "entry"
    ELSE IF AnyIn(description, MidTerms) THEN "mid"
    ELSE "mid"

\* Mutant of Craigslist_extract_job_type: part-time is tested first.
Craigslist_extract_job_type_part_time_first(description) ==
    LET description_lower == Lower(description)
    IN  IF AnyIn(description_lower, PartTimeTerms) THEN "part-time"
        ELSE IF AnyIn(description_lower, FullTimeTerms) THEN "full-time"
        ELSE IF AnyIn(description_lower, ContractTerms) THEN "contract"
        ELSE IF AnyIn(description_lower, InternshipTerms) THEN "internship"
        ELSE "full-time"

\* CraigslistScraper._extract_job_type: the terms are looked for in
\* description.lower().
Craigslist_extract_job_type(description) ==
    LET description_lower == Lower(description)
    IN  IF AnyIn(description_lower, FullTimeTerms) THEN "full-time"
        ELSE IF AnyIn(description_lower, PartTimeTerms) THEN "part-time"
        ELSE IF AnyIn(description_lower, ContractTerms) THEN "contract"
        ELSE IF AnyIn(description_lower, InternshipTerms) THEN "internship"
        ELSE "full-time"

\* CraigslistScraper._extract_experience_level
Craigslist_extract_experience_level(description) ==
    LET description_lower == Lower(description)
    IN  IF AnyIn(description_lower, SeniorTerms) THEN "senior"
        ELSE IF AnyIn(description_lower, EntryTerms) THEN "entry"
        ELSE IF AnyIn(description_lower, MidTerms) THEN "mid"
        ELSE "mid"

\* The classifier of a scraper for a field.
Classifier(scraper, field, description) ==
    CASE scraper = "simple" /\ field = "job_type" ->
            Simple_extract_job_type(description)
      [] scraper = "simple" /\ field = "experience_level" ->
            Simple_extract_experience_level(description)
      [] scraper = "craigslist" /\ field = "job_type" ->
            Craigslist_extract_job_type(description)
      [] OTHER ->
            Craigslist_extract_experience_level(description)

-----------------------------------------------------------------------------
(* SpecClassify: a classifier is applied to a text and then to its own     *)
(* result.                                                                  *)

\* What the texts are made of: terms of every class, the class names, words
\* in capitals, and text without any term.
Fragments ==
    {"full time", "parttime", "contractor", "intern", "lead", "junior",
     "entry-level", "3+ years", "full-time", "part-time", "contract",
     "internship", "senior", "entry", "mid", "Senior", "PART-TIME", " ", "cook"}

\* The concatenations of at most n fragments.
RECURSIVE TextsOf(_)
TextsOf(n) ==
    IF n = 0 THEN {""}
    ELSE LET shorter == TextsOf(n - 1)
         IN  shorter \cup {w \o t : w \in Fragments, t \in shorter}

Texts == TextsOf(MaxWords)

InitClassify ==
    /\ backend = "supabase"
    /\ jobs = <<>>
    /\ now = 0
    /\ last = NoCall
    /\ WorkerIdle
    /\ UnitsIdle
    /\ cls \in {[scraper |-> s, field |-> f, text |-> t, out |-> <<>>] :
                  s \in {"simple", "craigslist"},
                  f \in {"job_type", "experience_level"},
                  t \in Texts}

\* The classifier is called with the text.
Classify ==
    /\ cls.out = <<>>
    /\ cls' = [cls EXCEPT !.out = <<Classifier(cls.scraper, cls.field, cls.text)>>]
    /\ UNCHANGED storeVars
    /\ UNCHANGED workerVars
    /\ UNCHANGED unitVars

\* The classifier is called with what it returned.
Reclassify ==
    /\ Len(cls.out) = 1
    /\ cls' = [cls EXCEPT !.out = Append(@, Classifier(cls.scraper, cls.field, cls.out[1]))]
    /\ UNCHANGED storeVars
    /\ UNCHANGED workerVars
    /\ UNCHANGED unitVars

NextClassify == Classify \/ Reclassify

SpecClassify == InitClassify /\ [][NextClassify]_vars

-----------------------------------------------------------------------------
(* Claims about the storage clients, checked under SpecStore *)

\* C1: after any sequence of save_job calls no two rows of the jobs table
\* have the same job_url.
C1_UniqueJobUrl ==
    \A i, j \in 1..Len(jobs) : i # j => jobs[i].job_url # jobs[j].job_url

\* A save_job call whose insert was stored although the call raised, so that
\* a later look at the same job_url meets the stored row.
C1_Witness ==
    /\ last.op = "save_job"
    /\ last.pc = "returned"
    /\ last.raises >= 1
    /\ Len(jobs) = Len(last.before) + 1
    /\ Len(last.before) >= 1

DuplicateCall ==
    /\ last.op = "save_job"
    /\ \E i \in 1..Len(last.before) : last.before[i].job_url = last.job.job_url

\* C2: save_job called with a job whose job_url is already stored returns
\* False without raising, inserts no row and changes no field of a stored row.
C2_DuplicateIsNoOp ==
    DuplicateCall =>
        /\ jobs = last.before
        /\ ~last.raised
        /\ last.pc = "returned" => last.ret = FALSE

\* A returned save_job call for a stored job_url under another title.
C2_Witness ==
    /\ DuplicateCall
    /\ last.pc = "returned"
    /\ \E i \in 1..Len(last.before) :
          /\ last.before[i].job_url = last.job.job_url
          /\ last.before[i].title # last.job.title

OlderThan(row, cutoff) == row.scraped_at < cutoff

\* C3 as stated: cleanup_old_jobs(cutoff) sets is_active to False on exactly
\* the stored jobs whose scraped_at is earlier than cutoff and leaves every
\* other job unchanged in all its fields.
C3_CleanupMarksExactlyOld ==
    last.op = "cleanup_old_jobs" =>
        /\ Len(jobs) = Len(last.before)
        /\ \A i \in 1..Len(last.before) :
              IF OlderThan(last.before[i], last.cutoff)
              THEN jobs[i].is_active = FALSE
              ELSE jobs[i] = last.before[i]

\* C3 amended: cleanup_old_jobs(cutoff) leaves every job whose scraped_at is
\* at or after cutoff unchanged in all its fields and changes of an older job
\* at most is_active (to False) and updated_at; when its storage update does
\* not raise, every stored job whose scraped_at is earlier than cutoff is
\* inactive afterwards; when the update raises it returns 0 without raising.
C3_CleanupMarksOldUnlessUpdateRaises ==
    last.op = "cleanup_old_jobs" =>
        /\ Len(jobs) = Len(last.before)
        /\ ~last.raised
        /\ last.raises > 0 => last.ret = 0
        /\ \A i \in 1..Len(last.before) :
              IF OlderThan(last.before[i], last.cutoff)
              THEN /\ last.raises = 0 => jobs[i].is_active = FALSE
                   /\ \/ jobs[i] = last.before[i]
                      \/ jobs[i] = [last.before[i] EXCEPT !.is_active = FALSE,
                                                          !.updated_at = last.at]
              ELSE jobs[i] = last.before[i]

\* A cleanup whose update answered, with an active job older than the cutoff,
\* a job scraped exactly at the cutoff and nothing newer lost.
C3_Witness ==
    /\ last.op = "cleanup_old_jobs"
    /\ last.raises = 0
    /\ \E i, j \in 1..Len(last.before) :
          /\ OlderThan(last.before[i], last.cutoff)
          /\ last.before[i].is_active
          /\ ~jobs[i].is_active
          /\ last.before[j].scraped_at = last.cutoff
          /\ jobs[j].is_active

\* C4: SupabaseClient.save_job makes at most 3 attempts for one job: an
\* attempt that raises is followed by a 2-second sleep and a new attempt as
\* long as fewer than 3 attempts were made, after the third raising attempt it
\* returns False without raising, and an attempt that does not raise ends the
\* loop at once.
C4_ThreeAttemptsFixedSleep ==
    (backend = "supabase" /\ last.op = "save_job") =>
        /\ last.attempts <= 3
        /\ ~last.raised
        /\ \A k \in 1..Len(last.slept) : last.slept[k] = 2
        /\ IF last.pc = "running"
           THEN \* every attempt so far raised and was followed by a sleep
                /\ now = last.at + 2 * Len(last.slept)
                /\ last.attempts < 3
                /\ last.raises = last.attempts
                /\ Len(last.slept) = last.attempts
           ELSE \/ \* the last attempt did not raise: it ended the loop
                   /\ last.raises = last.attempts - 1
                   /\ Len(last.slept) = last.attempts - 1
                \/ \* the third attempt raised: False, and no further sleep
                   /\ last.raises = 3
                   /\ last.attempts = 3
                   /\ Len(last.slept) = 2
                   /\ last.ret = FALSE

\* save_job has returned after three raising attempts.
C4_Witness ==
    /\ backend = "supabase"
    /\ last.op = "save_job"
    /\ last.pc = "returned"
    /\ last.raises = 3

-----------------------------------------------------------------------------
(* Claims about the worker, checked under Spec *)

\* C5: once run_scheduler has started the worker never leaves its polling
\* loop on its own: whatever fails in a scrape cycle, no step ends the worker
\* or lets an exception out of scrape_all_portals, the step that ends a cycle
\* leads (back) to the polling loop, and the polling loop is left only to run
\* the next cycle.
C5_SchedulerKeepsPolling ==
    [][mode = "scheduler" =>
          /\ pc' \notin {"exited", "crashed"}
          /\ pc = "cleanup" => pc' = "poll"
          /\ pc = "poll" => pc' \in {"poll", "city"}]_vars

\* The scheduler back in its polling loop after a cycle run by run_pending,
\* with a storage or network call failed on the way.
C5_Witness ==
    /\ mode = "scheduler"
    /\ pc = "poll"
    /\ cycles = 2
    /\ faults >= 1

\* C6: in one scrape cycle every configured city is attempted, in the
\* configured order: no failure ends the loop over the cities, every failure
\* is logged, the cities attempted so far are the first configured ones in
\* their order (stripped and lower-cased), and when the loop is over every
\* configured city has been attempted.
C6_EveryCityInOrder ==
    /\ pc # "crashed"
    /\ errlog >= faults
    /\ Len(runs) <= Len(cities)
    /\ \A k \in 1..Len(runs) : runs[k].city = NormalizeCity(cities[k])
    /\ pc \in {"cleanup", "poll", "exited"} =>
          /\ Len(runs) = Len(cities)
          /\ \A k \in 1..Len(runs) : runs[k].done
    /\ pc = "city" =>
          /\ Len(runs) = ci - 1
          /\ \A k \in 1..Len(runs) : runs[k].done
    /\ pc \in {"save", "saving", "complete"} =>
          /\ Len(runs) = ci
          /\ ~runs[ci].done

\* The page request or a save of the first city has failed (its log calls
\* have not), and the second city has been scraped, with a job found.
C6_Witness ==
    /\ Len(runs) = 2
    /\ runs[1].city \in base_urls
    /\ runs[1].start = "ok"
    /\ runs[1].completion = "ok"
    /\ runs[2].faults_before = 1
    /\ runs[2].done
    /\ runs[2].found = 1

\* The scraping_logs row of a city scrape as log_scrape_start created it.
StartedRow(run) == NewLogRow(run.id, "craigslist", run.city, run.started_at)

\* C7 as stated: each scrape of one city records exactly one scraping_logs
\* row, created by log_scrape_start with portal, city, start time and status
\* 'running', and log_scrape_completion later updates that same row with end
\* time, jobs_found, jobs_added and status.
C7_ExactlyOneRowCompleted ==
    \A k \in 1..Len(runs) :
        /\ runs[k].row # 0
        /\ IF runs[k].done
           THEN logs[runs[k].row] =
                   CompleteLogRow(StartedRow(runs[k]), runs[k].found, runs[k].added,
                                  runs[k].status, runs[k].error_message,
                                  runs[k].completed_at)
           ELSE logs[runs[k].row] = StartedRow(runs[k])

\* Whether the row of a city scrape has been completed: log_scrape_start got
\* the row back, and the update of log_scrape_completion was stored.
RowCompleted(run) ==
    /\ run.done
    /\ run.start = "ok"
    /\ run.completion \in {"ok", "update_lost_reply"}

\* The scraping_logs rows of the city scrapes of the cycle.
C7_Rows ==
    \A k \in 1..Len(runs) :
        /\ runs[k].row # 0 <=> runs[k].start \in {"ok", "insert_lost_reply"}
        /\ runs[k].row # 0 =>
              /\ runs[k].row \in 1..Len(logs)
              /\ \A j \in 1..Len(runs) : runs[j].row = runs[k].row => j = k
              /\ logs[runs[k].row] =
                    IF RowCompleted(runs[k])
                    THEN CompleteLogRow(StartedRow(runs[k]), runs[k].found, runs[k].added,
                                        runs[k].status, runs[k].error_message,
                                        runs[k].completed_at)
                    ELSE StartedRow(runs[k])

\* C7 amended: each scrape of one city inserts at most one scraping_logs row
\* (one when the insert of log_scrape_start is stored, none when it is not),
\* created with portal, city, start time and status 'running'; no step
\* removes a row or changes a row other than the one whose id
\* log_scrape_start returned; log_scrape_completion sets end time,
\* jobs_found, jobs_added and status on that row when log_scrape_start got the
\* row back and the update is stored, and otherwise the row stays as created.
C7_AtMostOneRowCompleted ==
    [][/\ Len(logs') \in {Len(logs), Len(logs) + 1}
       /\ Len(logs') = Len(logs) + 1 => pc = "city"
       /\ \A i \in 1..Len(logs) :
             logs'[i] # logs[i] => (pc = "complete" /\ logs[i].id = log_id)
       /\ C7_Rows']_vars

\* Two city scrapes of a cycle, each with its own row, the first completed
\* and the second still running.
C7_Witness ==
    /\ Len(runs) = 2
    /\ RowCompleted(runs[1])
    /\ runs[1].row # 0
    /\ logs[runs[1].row].status = "completed"
    /\ runs[2].row # 0
    /\ runs[2].row # runs[1].row
    /\ ~runs[2].done
    /\ logs[runs[2].row].status = "running"

-----------------------------------------------------------------------------
(* Claims about the keyword classifiers, checked under SpecClassify *)

JobTypes == {"full-time", "part-time", "contract", "internship"}

ExperienceLevels == {"senior", "entry", "mid"}

\* The text in which the classifier of cls looks for its terms.
SearchedText == IF cls.scraper = "craigslist" THEN Lower(cls.text) ELSE cls.text

\* No term of any class of the field of cls is in the text searched.
NoTermMatches ==
    \A terms \in IF cls.field = "job_type"
                 THEN {FullTimeTerms, PartTimeTerms, ContractTerms, InternshipTerms}
                 ELSE {SeniorTerms, EntryTerms, MidTerms} :
       \A n \in 1..Len(terms) : ~Contains(SearchedText, terms[n])

\* C9: the keyword classifiers are total: for every text _extract_job_type
\* returns one of 'full-time', 'part-time', 'contract', 'internship', and
\* 'full-time' when no term matches; _extract_experience_level returns one of
\* 'senior', 'entry', 'mid', and 'mid' when no term matches.
C9_ClassifiersTotal ==
    \A k \in 1..Len(cls.out) :
       IF cls.field = "job_type"
       THEN /\ cls.out[k] \in JobTypes
            /\ (k = 1 /\ NoTermMatches) => cls.out[k] = "full-time"
       ELSE /\ cls.out[k] \in ExperienceLevels
            /\ (k = 1 /\ NoTermMatches) => cls.out[k] = "mid"

\* _extract_job_type of SimpleJobScraper has classified a text in which no
\* term matches although it names a class in capitals.
C9_Witness ==
    /\ cls.scraper = "simple"
    /\ cls.field = "job_type"
    /\ cls.text = "PART-TIMEcook"
    /\ cls.out = <<"full-time">>

\* C10: the keyword classifiers are idempotent: a classifier applied to what
\* it returned for a text returns the same again.
C10_ClassifiersIdempotent ==
    Len(cls.out) = 2 => cls.out[2] = cls.out[1]

\* _extract_experience_level has been applied to its result 'entry' for a
\* text that also holds a term of the class after it.
C10_Witness ==
    /\ cls.field = "experience_level"
    /\ cls.text = "juniormid"
    /\ cls.out = <<"entry", "entry">>

\* The classes of the field of cls with their terms, in the fixed order.
ClassOrder ==
    IF cls.field = "job_type"
    THEN <<<<"full-time", FullTimeTerms>>, <<"part-time", PartTimeTerms>>,
           <<"contract", ContractTerms>>, <<"internship", InternshipTerms>>>>
    ELSE <<<<"senior", SeniorTerms>>, <<"entry", EntryTerms>>, <<"mid", MidTerms>>>>

\* The class at position c of ClassOrder has a term in the text.
ClassMatches(text, c) ==
    \E n \in 1..Len(ClassOrder[c][2]) : Contains(text, ClassOrder[c][2][n])

\* The position of the first class from c on with a term in the text (0 when
\* there is none).
RECURSIVE FirstMatchingClass(_, _)
FirstMatchingClass(text, c) ==
    IF c > Len(ClassOrder) THEN 0
    ELSE IF ClassMatches(text, c) THEN c
    ELSE FirstMatchingClass(text, c + 1)

ReturnsClass(c) == c # 0 => cls.out[1] = ClassOrder[c][1]

\* C17: when the text contains terms of one or several classes, the
\* classifier returns the matching class that comes first in the fixed order
\* full-time, part-time, contract, internship for _extract_job_type and
\* senior, entry, mid for _extract_experience_level.
C17_FirstMatchingClass ==
    Len(cls.out) >= 1 => ReturnsClass(FirstMatchingClass(SearchedText, 1))

\* _extract_job_type of CraigslistScraper has classified a text that names
\* part-time before full-time, in capitals.
C17_Witness ==
    /\ cls.scraper = "craigslist"
    /\ cls.field = "job_type"
    /\ cls.text = "PART-TIMEfull time"
    /\ cls.out = <<"full-time">>

-----------------------------------------------------------------------------
(* The functions and scripts that run apart from the worker start from here. *)

InitUnits ==
    /\ backend = "supabase"
    /\ jobs = <<>>
    /\ now = 0
    /\ last = NoCall
    /\ WorkerIdle
    /\ cls = NoClassifier
    /\ UnitsIdle

-----------------------------------------------------------------------------
(* JobScraper.scrape_all_sources (job_scraper.py) *)

\* scrape_craigslist returns at most MaxScraped jobs.
MaxScraped == 3

\* Titles and companies as scrape_craigslist puts them in a job: strings,
\* the title never empty, the company "Company not listed" by default.
ScrapedTitles == {"Cook", "cook", "Baker"}

ScrapedCompanies == {"Acme", "ACME", "Company not listed"}

\* What scrape_craigslist returns: job number i has id craigslist_i.
ScrapedLists ==
    UNION {[1..n -> ScrapedTitles \X ScrapedCompanies] : n \in 0..MaxScraped}

ScrapedJobs(l) ==
    [i \in 1..Len(l) |-> [id |-> i, title |-> l[i][1], company |-> l[i][2]]]

DedupKey_case_sensitive(job) == <<job.title, job.company>>

\* key = (job['title'].lower(), job['company'].lower())
DedupKey(job) == <<Lower(job.title), Lower(job.company)>>

\* all_jobs.extend(scrape_craigslist("", location)); unique_jobs, seen = [], set()
ScrapeAllSources ==
    /\ agg.pc = "idle"
    /\ \E l \in ScrapedLists :
          agg' = [pc |-> "dedup", all_jobs |-> ScrapedJobs(l), i |-> 1, seen |-> {},
                  unique_jobs |-> <<>>, ret |-> <<>>]
    /\ UNCHANGED <<storeVars, workerVars, cls>>
    /\ UNCHANGED <<parse, scr, sel, batch, drv, seed, port>>

\* One turn of `for job in all_jobs`.
DedupStep ==
    /\ agg.pc = "dedup"
    /\ agg.i <= Len(agg.all_jobs)
    /\ LET job == agg.all_jobs[agg.i]
           key == DedupKey(job)
       IN  agg' = IF key \notin agg.seen
                  THEN [agg EXCEPT !.i = @ + 1, !.seen = @ \cup {key},
                                   !.unique_jobs = Append(@, job)]
                  ELSE [agg EXCEPT !.i = @ + 1]
    /\ UNCHANGED <<storeVars, workerVars, cls>>
    /\ UNCHANGED <<parse, scr, sel, batch, drv, seed, port>>

\* return unique_jobs
DedupReturn ==
    /\ agg.pc = "dedup"
    /\ agg.i > Len(agg.all_jobs)
    /\ agg' = [agg EXCEPT !.pc = "returned", !.ret = agg.unique_jobs]
    /\ UNCHANGED <<storeVars, workerVars, cls>>
    /\ UNCHANGED <<parse, scr, sel, batch, drv, seed, port>>

NextDedup == ScrapeAllSources \/ DedupStep \/ DedupReturn

SpecDedup == InitUnits /\ [][NextDedup]_vars

\* The pair a job is compared on.
LoweredPair(job) == <<Lower(job.title), Lower(job.company)>>

\* The scraped positions whose pair no earlier scraped job has.
FirstOfPair(all_jobs) ==
    {i \in 1..Len(all_jobs) :
        \A j \in 1..(i - 1) : LoweredPair(all_jobs[j]) # LoweredPair(all_jobs[i])}

\* C11: scrape_all_sources returns a list in which no two jobs have the same
\* (lower-cased title, lower-cased company) pair; the jobs it returns are
\* exactly the scraped jobs that are the first of their pair, and they stand
\* in their scraped order.
C11_DedupKeepsFirstInOrder ==
    agg.pc = "returned" =>
        /\ \A a, b \in 1..Len(agg.ret) :
              a # b => LoweredPair(agg.ret[a]) # LoweredPair(agg.ret[b])
        /\ {agg.ret[a].id : a \in 1..Len(agg.ret)} = FirstOfPair(agg.all_jobs)
        /\ \A a \in 1..Len(agg.ret) : agg.ret[a] = agg.all_jobs[agg.ret[a].id]
        /\ \A a, b \in 1..Len(agg.ret) : a < b => agg.ret[a].id < agg.ret[b].id

\* Three jobs were scraped, the first and the last differ in letter case
\* only, and two jobs are returned.
C11_Witness ==
    /\ agg.pc = "returned"
    /\ Len(agg.all_jobs) = 3
    /\ agg.all_jobs[1].title # agg.all_jobs[3].title
    /\ LoweredPair(agg.all_jobs[1]) = LoweredPair(agg.all_jobs[3])
    /\ Len(agg.ret) = 2

-----------------------------------------------------------------------------
(* SimpleJobScraper._parse_job_listing and _get_job_details
   (simple_scraper.py) *)

\* A Python dict: a function from its keys; dict.get(key, default).
EmptyDict == [k \in {} |-> None]

Get(dict, key, default) == IF key \in DOMAIN dict THEN dict[key] ELSE default

\* description[:300]
DescriptionLimit == 300

\* re.sub(r'\s+', ' ', str), for the blank as the only white space
RECURSIVE CollapseBlanks(_)
CollapseBlanks(str) ==
    IF Len(str) < 2 THEN str
    ELSE IF Char(str, 1) = " " /\ Char(str, 2) = " "
         THEN CollapseBlanks(SubSeq(str, 2, Len(str)))
    ELSE Char(str, 1) \o CollapseBlanks(SubSeq(str, 2, Len(str)))

\* re.sub(k, '', str) for a literal k
RECURSIVE RemoveAll(_, _)
RemoveAll(str, k) ==
    IF Len(str) < Len(k) THEN str
    ELSE IF SubSeq(str, 1, Len(k)) = k THEN RemoveAll(SubSeq(str, Len(k) + 1, Len(str)), k)
    ELSE Char(str, 1) \o RemoveAll(SubSeq(str, 2, Len(str)), k)

\* re.sub(k + '.*$', '', str, flags=re.IGNORECASE) for a lower-case literal k
\* and a str of one line
CutFrom(str, k) ==
    LET lowered == Lower(str)
        at == {i \in 1..(Len(str) - Len(k) + 1) : SubSeq(lowered, i, i + Len(k) - 1) = k}
    IN  IF at = {} THEN str
        ELSE SubSeq(str, 1, (CHOOSE i \in at : \A j \in at : i <= j) - 1)

\* SimpleJobScraper._clean_description
clean_description(description) ==
    Strip(CutFrom(CutFrom(RemoveAll(CollapseBlanks(description),
                                    "QR Code Link to This Post"),
                          "post id:"),
                  "do not contact me"))

\* str.title() of a word of lower-case letters
TitleCase(word) ==
    IF Len(word) = 0 THEN ""
    ELSE Char(UpperCase, CHOOSE i \in 1..26 : Char(LowerCase, i) = Char(word, 1))
         \o SubSeq(word, 2, Len(word))

\* SimpleJobScraper._extract_city_from_url
extract_city_from_url(url) ==
    IF Contains(url, "vancouver") THEN "vancouver"
    ELSE IF Contains(url, "toronto") THEN "toronto"
    ELSE IF Contains(url, "calgary") THEN "calgary"
    ELSE "unknown"

\* SimpleJobScraper._get_province
get_province(city) ==
    CASE city = "vancouver" -> "BC"
      [] city = "toronto" -> "ON"
      [] city = "calgary" -> "AB"
      [] OTHER -> "Canada"

\* The link elements of a category page: the href (None: no href attribute)
\* and the text of the link.
LinkElements ==
    [href : {None, "", "/fbh/d/line-cook/1.html", "/fbh/d/cook-vancouver-island/3.html",
             "https://toronto.craigslist.org/tor/fbh/d/cook/2.html"},
     text : {"", " ab", " Line cook ", "Senior baker"}]

\* The detail page of a listing as requests.get finds it: the request times
\* out, the server answers with an error status, or the page comes with or
\* without each of the elements _get_job_details looks for (None: without).
\* body_email and body_phone are what the two re.search calls find in the
\* text of the posting body; date is the datetime attribute of the time
\* element; text is soup.get_text().
FetchedPages ==
    [fetch : {"ok"},
     postingbody : {None, " Line  cook wanted. QR Code Link to This Post ",
                    "Call now. Post ID: 7"},
     reply_email : {None, "a@job.craigslist.org"},
     body_email : {None, "chef@acme.ca"},
     body_phone : {None, "604-555-0101"},
     postingtitletext : {None, "Line cook", "Line cook (Acme)"},
     date : {None, "yesterday", "2024-05-01T10:00:00"},
     price : {None, "$20/hr"},
     text : {"Line cook wanted", "PART-TIME junior baker"}]

NoPage ==
    [fetch |-> None, postingbody |-> None, reply_email |-> None, body_email |-> None,
     body_phone |-> None, postingtitletext |-> None, date |-> None,
     price |-> None, text |-> ""]

DetailPages ==
    FetchedPages \cup {[NoPage EXCEPT !.fetch = f] : f \in {"timeout", "http_error"}}

\* re.search(r'\(([^)]+)\)', company_text): the text between the first
\* pair of parentheses that holds something.
CompanyMatch(company_text) ==
    LET opens == {i \in 1..Len(company_text) :
                    /\ Char(company_text, i) = "("
                    /\ \E j \in (i + 2)..Len(company_text) :
                          /\ Char(company_text, j) = ")"
                          /\ \A k \in (i + 1)..(j - 1) : Char(company_text, k) # ")"}
    IN  IF opens = {} THEN None
        ELSE LET i == CHOOSE a \in opens : \A b \in opens : a <= b
                 j == CHOOSE a \in (i + 2)..Len(company_text) :
                         /\ Char(company_text, a) = ")"
                         /\ \A k \in (i + 1)..(a - 1) : Char(company_text, k) # ")"
             IN  SubSeq(company_text, i + 1, j - 1)

\* Mutant of details_email: the email of the description is looked for first.
details_email_body_first(page) ==
    IF page.postingbody # None /\ page.body_email # None
    THEN ("email" :> page.body_email)
    ELSE IF page.reply_email \notin {None, ""} THEN ("email" :> page.reply_email)
    ELSE EmptyDict

\* The 'email' entry of the details: reply_email, what _extract_reply_email
\* found (None or an address), is entered when it is truthy; the address
\* found in the posting body is entered when there is a posting body and no
\* 'email' entry yet.
details_email(page) ==
    IF page.reply_email \notin {None, ""} THEN ("email" :> page.reply_email)
    ELSE IF page.postingbody # None /\ page.body_email # None
         THEN ("email" :> page.body_email)
    ELSE EmptyDict

\* Mutant of get_job_details: a failing request is not caught.
get_job_details_no_catch(page) ==
    [details |-> EmptyDict, raised |-> page.fetch # "ok", logged |-> 0]

\* SimpleJobScraper._get_job_details: the details dict, whether the call
\* raised, and the warning records logged.
get_job_details(page) ==
    IF page.fetch # "ok"
    THEN [details |-> EmptyDict, raised |-> FALSE, logged |-> 1]
    ELSE LET description == Strip(page.postingbody)
             d_description ==
                IF page.postingbody = None THEN EmptyDict
                ELSE ("description" :>
                         clean_description(IF Len(description) > DescriptionLimit
                                           THEN SubSeq(description, 1, DescriptionLimit) \o "..."
                                           ELSE description))
                     @@ ("full_description" :> clean_description(description))
             d_email == details_email(page)
             d_phone ==
                IF page.postingbody # None /\ page.body_phone # None
                THEN ("phone" :> page.body_phone)
                ELSE EmptyDict
             d_company ==
                IF page.postingtitletext # None /\ CompanyMatch(page.postingtitletext) # None
                THEN ("company" :> CompanyMatch(page.postingtitletext))
                ELSE EmptyDict
             \* datetime.fromisoformat raises on a string that is no date:
             \* the bare except passes
             d_posted_date ==
                IF page.date \notin {None, "yesterday"}
                THEN ("posted_date" :> page.date)
                ELSE EmptyDict
             d_salary ==
                IF page.price # None THEN ("salary" :> Strip(page.price)) ELSE EmptyDict
             full_text == Lower(page.text)
         IN  [details |-> d_description @@ d_email @@ d_phone @@ d_company
                          @@ d_posted_date @@ d_salary
                          @@ ("job_type" :> Simple_extract_job_type(full_text))
                          @@ ("experience_level" :> Simple_extract_experience_level(full_text)),
              raised |-> FALSE, logged |-> 0]

\* _get_job_details on every detail page, as an explicit table.
DetailsTable == [page \in DetailPages |-> get_job_details(page)] @@ EmptyDict

\* self.base_urls[city]
base_url(city) == "https://" \o city \o ".craigslist.org"

\* The filter of _scrape_category on the links of a category page: the href
\* ends in .html and holds '/d/'.
job_link(href) ==
    /\ href # None
    /\ Len(href) >= 5
    /\ SubSeq(href, Len(href) - 4, Len(href)) = ".html"
    /\ Contains(href, "/d/")

\* _parse_job_listing is called with a link element of a category page of
\* the city being scraped: lines 112-124.
ParseJobListing ==
    /\ parse.pc = "idle"
    /\ \E link_element \in LinkElements, city \in base_urls :
          LET href == link_element.href
              job_url == IF href \in {None, ""} THEN href
                         ELSE IF SubSeq(href, 1, 4) # "http" THEN base_url(city) \o href
                         ELSE href
              title == Strip(link_element.text)
              none == href \in {None, ""} \/ Len(title) < 3
          IN  parse' = [pc |-> IF none THEN "returned" ELSE "details", city |-> city,
                        link_element |-> link_element, job_url |-> job_url,
                        title |-> title, fetched |-> FALSE, page |-> NoPage,
                        job_details |-> EmptyDict, ret |-> <<>>, raised |-> FALSE,
                        logged |-> 0]
    /\ UNCHANGED <<storeVars, workerVars, cls>>
    /\ UNCHANGED <<agg, scr, sel, batch, drv, seed, port>>

\* job_details = self._get_job_details(job_url); an exception it lets out is
\* caught by the except clause of _parse_job_listing, which returns None.
GetJobDetails ==
    /\ parse.pc = "details"
    /\ \E page \in DetailPages :
          LET r == DetailsTable[page]
          IN  parse' = [parse EXCEPT !.pc = IF r.raised THEN "returned" ELSE "build",
                                     !.fetched = TRUE, !.page = page,
                                     !.job_details = r.details,
                                     !.logged = r.logged + (IF r.raised THEN 1 ELSE 0)]
    /\ UNCHANGED <<storeVars, workerVars, cls>>
    /\ UNCHANGED <<agg, scr, sel, batch, drv, seed, port>>

\* job_data is built and returned (None is the empty sequence).
BuildJobData ==
    /\ parse.pc = "build"
    /\ LET job_details == parse.job_details
           city == extract_city_from_url(parse.job_url)
           job_data ==
              [title |-> parse.title,
               company |-> Get(job_details, "company", "Company Not Listed"),
               location |-> Get(job_details, "location", TitleCase(city) \o ", Canada"),
               city |-> city,
               province |-> get_province(city),
               description |-> Get(job_details, "description", parse.title),
               full_description |-> Get(job_details, "full_description",
                                        Get(job_details, "description", parse.title)),
               job_url |-> parse.job_url,
               source_portal |-> "craigslist",
               contact_email |-> Get(job_details, "email", None),
               contact_phone |-> Get(job_details, "phone", None),
               posted_date |-> Get(job_details, "posted_date", "now"),
               job_type |-> Get(job_details, "job_type", "full-time"),
               experience_level |-> Get(job_details, "experience_level", "mid"),
               salary |-> Get(job_details, "salary", "Not specified")]
       IN  parse' = [parse EXCEPT !.pc = "returned", !.ret = <<job_data>>]
    /\ UNCHANGED <<storeVars, workerVars, cls>>
    /\ UNCHANGED <<agg, scr, sel, batch, drv, seed, port>>

NextParse == ParseJobListing \/ GetJobDetails \/ BuildJobData

SpecParse == InitUnits /\ [][NextParse]_vars

\* C12: _parse_job_listing never raises; once it has asked for the detail
\* page it returns a record, in which a missing company element gives
\* company 'Company Not Listed' and a missing price element salary
\* 'Not specified', and when the detail page could not be fetched the
\* description is the title, job_type 'full-time' and experience_level 'mid'.
C12_ParseDegrades ==
    parse.pc = "returned" =>
        /\ ~parse.raised
        /\ parse.fetched =>
              /\ Len(parse.ret) = 1
              /\ parse.page.postingtitletext = None =>
                    parse.ret[1].company = "Company Not Listed"
              /\ parse.page.price = None => parse.ret[1].salary = "Not specified"
              /\ parse.page.fetch # "ok" =>
                    /\ parse.ret[1].description = Strip(parse.link_element.text)
                    /\ parse.ret[1].job_type = "full-time"
                    /\ parse.ret[1].experience_level = "mid"

\* The detail page of a listing could not be fetched and the call has
\* returned.
C12_Witness ==
    /\ parse.pc = "returned"
    /\ parse.fetched
    /\ parse.page.fetch = "timeout"
    /\ parse.logged = 1

-----------------------------------------------------------------------------
(* Claims about the start of the worker, checked under Spec *)

\* RUN_ONCE as main() compares it: lower-cased, 'false' when not set.
LoweredRunOnce == IF env.RUN_ONCE = None THEN "false" ELSE Lower(env.RUN_ONCE)

WorkerStarted == pc \notin {"start", "startup_error"}

\* C13: with RUN_ONCE equal to 'true' in any letter case the worker starts a
\* scrape cycle at once, never polls, and returns when that one cycle is
\* over; with any other value it schedules the job in scrape_interval hours,
\* starts the initial cycle at once, never returns, goes to the polling loop
\* after every cycle, leaves the polling loop only to run a cycle when the
\* job is due, and makes the job due again scrape_interval hours after each
\* scheduled run.
C13_RunOnceOrForever ==
    [][WorkerStarted =>
          IF LoweredRunOnce = "true"
          THEN /\ pc = "main" => pc' = "city" /\ now' = now
               /\ pc' # "poll"
               /\ cycles' <= 1
               /\ pc = "cleanup" => pc' = "exited"
               /\ pc' = "exited" => cycles' = 1
          ELSE /\ pc = "main" =>
                    /\ pc' = "city"
                    /\ now' = now
                    /\ next_run' = now + scrape_interval * 3600
               /\ pc' # "exited"
               /\ pc = "cleanup" => pc' = "poll"
               /\ pc = "poll" => pc' \in {"poll", "city"}
               /\ (pc = "poll" /\ pc' = "city") => now >= next_run
               /\ (pc # "main" /\ next_run' # next_run) =>
                     /\ pc = "cleanup"
                     /\ cycles > 0
                     /\ next_run' = now + scrape_interval * 3600]_vars

\* The worker has returned after one cycle, started with RUN_ONCE=True.
C13_Witness ==
    /\ env.RUN_ONCE = "True"
    /\ pc = "exited"
    /\ cycles = 1

\* C14: without SUPABASE_URL or SUPABASE_ANON_KEY the construction of the
\* storage client raises ValueError and the worker stops there: no storage
\* call, no scrape, no log row, no schedule; with both it starts.  The
\* PostgresClient raises ValueError without DATABASE_URL, before it connects.
C14_NoConfigurationNoStart ==
    pc # "start" =>
        /\ pc = "startup_error" <=>
              (env.SUPABASE_URL \in {None, ""} \/ env.SUPABASE_ANON_KEY \in {None, ""})
        /\ pc = "startup_error" =>
              /\ jobs = <<>>
              /\ logs = <<>>
              /\ runs = <<>>
              /\ last = NoCall
              /\ cycles = 0
              /\ next_id = 1
              /\ next_run = None
              /\ mode = None
        /\ env.DATABASE_URL \in {None, ""} =>
              \A connect \in {"ok", "refused"} :
                  /\ Postgres_init(env, connect).raised = "ValueError"
                  /\ Postgres_init(env, connect).connects = 0

\* The worker was started with SUPABASE_URL but without SUPABASE_ANON_KEY and
\* has stopped.
C14_Witness ==
    /\ pc = "startup_error"
    /\ env.SUPABASE_URL # None
    /\ env.SUPABASE_ANON_KEY = None

-----------------------------------------------------------------------------
(* scrape_jobs of both scrapers, and what the worker passes to storage
   (simple_scraper.py, craigslist_scraper.py, main.py) *)

\* scrape_jobs is called with max_jobs up to MaxJobsArg.
MaxJobsArg == 3

\* The listings a category page can show, and the category pages that show
\* any: the further categories are empty.
CategoryListings == {1, 2, 3}

ListedPages ==
    {FailedPage} \cup
    {[ok |-> TRUE, links |-> q] : q \in Arrangements({Listing(u) : u \in CategoryListings})}

CategoryPages == {<<>>} \cup {<<p>> : p \in ListedPages} \cup (ListedPages \X ListedPages)

\* CraigslistScraper._scrape_category: a failing request and a driver that
\* cannot be set up are caught and logged and give no job; else the first
\* max_jobs links are followed.
Craigslist_scrape_category(page, max_jobs, driver) ==
    IF ~page.ok \/ driver # "ok" THEN [jobs |-> <<>>, logged |-> 1]
    ELSE [jobs |-> Take(page.links, max_jobs), logged |-> 0]

\* CraigslistScraper.scrape_jobs: one category, 'jjj'.
Craigslist_scrape_jobs(city, max_jobs, pages, driver) ==
    IF city \notin base_urls
    THEN [jobs |-> <<>>, raised |-> FALSE, logged |-> 1]
    ELSE LET category == Craigslist_scrape_category(PageOf(pages, 1), max_jobs, driver)
         IN  [jobs |-> Take(category.jobs, max_jobs), raised |-> FALSE,
              logged |-> category.logged]

\* scrape_jobs(city, max_jobs) is called and returns.
ScrapeJobs ==
    /\ scr.pc = "idle"
    /\ \E scraper \in {"simple", "craigslist"}, city \in {"vancouver", "atlantis"},
          max_jobs \in 0..MaxJobsArg, pages \in CategoryPages,
          driver \in {"ok", "fails"} :
          /\ scraper = "simple" => driver = "ok"
          /\ LET r == IF scraper = "simple" THEN scrape_jobs(city, max_jobs, pages)
                      ELSE Craigslist_scrape_jobs(city, max_jobs, pages, driver)
             IN  scr' = [pc |-> "scraped", scraper |-> scraper, city |-> city,
                         max_jobs |-> max_jobs, pages |-> pages, driver |-> driver,
                         jobs |-> r.jobs, raised |-> r.raised, i |-> 0,
                         batches |-> <<>>]
    /\ UNCHANGED <<storeVars, workerVars, cls>>
    /\ UNCHANGED <<agg, parse, sel, batch, drv, seed, port>>

\* scrape_all_portals, one turn of `for i in range(0, len(jobs), batch_size)`:
\* the worker, whose scraper is the SimpleJobScraper, passes
\* jobs[i:i + batch_size] to _save_job_batch.
PassBatch ==
    /\ scr.pc = "scraped"
    /\ scr.scraper = "simple"
    /\ scr.i < Len(scr.jobs)
    /\ scr' = [scr EXCEPT !.i = @ + batch_size,
                          !.batches = Append(@, SubSeq(scr.jobs, scr.i + 1,
                                                       IF scr.i + batch_size < Len(scr.jobs)
                                                       THEN scr.i + batch_size
                                                       ELSE Len(scr.jobs)))]
    /\ UNCHANGED <<storeVars, workerVars, cls>>
    /\ UNCHANGED <<agg, parse, sel, batch, drv, seed, port>>

\* The loop over the batches is over.
PassDone ==
    /\ scr.pc = "scraped"
    /\ scr.scraper = "simple"
    /\ scr.i >= Len(scr.jobs)
    /\ scr' = [scr EXCEPT !.pc = "passed"]
    /\ UNCHANGED <<storeVars, workerVars, cls>>
    /\ UNCHANGED <<agg, parse, sel, batch, drv, seed, port>>

NextScrape == ScrapeJobs \/ PassBatch \/ PassDone

SpecScrape == InitUnits /\ [][NextScrape]_vars

\* The links of all category pages served.
RECURSIVE LinksServed(_)
LinksServed(pages) ==
    IF pages = <<>> THEN 0 ELSE Len(pages[1].links) + LinksServed(Tail(pages))

RECURSIVE TotalLen(_)
TotalLen(seqs) == IF seqs = <<>> THEN 0 ELSE Len(seqs[1]) + TotalLen(Tail(seqs))

\* C15: scrape_jobs never returns more than max_jobs records and never
\* raises, whatever the category pages list, and the batches the worker
\* passes to _save_job_batch hold no more than max_jobs jobs together.
C15_AtMostMaxJobs ==
    scr.pc # "idle" =>
        /\ ~scr.raised
        /\ Len(scr.jobs) <= scr.max_jobs
        /\ TotalLen(scr.batches) <= scr.max_jobs

\* The pages list more links than max_jobs, max_jobs jobs were returned and
\* the worker has passed them all on.
C15_Witness ==
    /\ scr.pc = "passed"
    /\ Len(scr.pages) = 2
    /\ LinksServed(scr.pages) > scr.max_jobs
    /\ scr.max_jobs = 2
    /\ Len(scr.pages[1].links) = 1
    /\ TotalLen(scr.batches) = 2

-----------------------------------------------------------------------------
(* JobScraper.scrape_craigslist: the selector loop (job_scraper.py) *)

selectors ==
    <<".cl-app-anchor", ".result-row", ".posting", ".result", "a[href*=\"/jjj/\"]",
      ".search-results .cl-app-anchor",
      "[data-testid=\"search-results\"] .cl-app-anchor">>

\* for element in job_elements[:100]
ElementCap == 100

\* How many elements of the page a selector can match.
MatchCounts == {0, 2, ElementCap + 1}

\* The listing pages: for every selector, the number of elements it matches.
ListingPages == [1..Len(selectors) -> MatchCounts]

\* soup.select(selector): the elements matched, in document order.
Select(page, k) == [n \in 1..page[k] |-> [selector |-> selectors[k], n |-> n]]

\* Mutant of selector_step: without the break.
selector_step_no_break(f) ==
    [f EXCEPT !.job_elements = Select(f.page, f.k),
              !.consulted = Append(@, selectors[f.k]),
              !.k = @ + 1,
              !.pc = IF f.k = Len(selectors) THEN "process" ELSE "select"]

\* One turn of `for selector in selectors`: job_elements is what the selector
\* matches, and the loop is left when it is not empty.
selector_step(f) ==
    LET job_elements == Select(f.page, f.k)
    IN  [f EXCEPT !.job_elements = job_elements,
                  !.consulted = Append(@, selectors[f.k]),
                  !.k = @ + 1,
                  !.pc = IF job_elements # <<>> \/ f.k = Len(selectors)
                         THEN "process" ELSE "select"]

\* The listing page has been loaded and parsed; job_elements = [].
LoadListing ==
    /\ sel.pc = "idle"
    /\ \E page \in ListingPages :
          sel' = [pc |-> "select", page |-> page, k |-> 1, consulted |-> <<>>,
                  job_elements |-> <<>>, processed |-> <<>>]
    /\ UNCHANGED <<storeVars, workerVars, cls>>
    /\ UNCHANGED <<agg, parse, scr, batch, drv, seed, port>>

TrySelector ==
    /\ sel.pc = "select"
    /\ sel' = selector_step(sel)
    /\ UNCHANGED <<storeVars, workerVars, cls>>
    /\ UNCHANGED <<agg, parse, scr, batch, drv, seed, port>>

\* for element in job_elements[:100]: the elements the loop goes through.
ProcessElements ==
    /\ sel.pc = "process"
    /\ sel' = [sel EXCEPT !.pc = "done", !.processed = Take(sel.job_elements, ElementCap)]
    /\ UNCHANGED <<storeVars, workerVars, cls>>
    /\ UNCHANGED <<agg, parse, scr, batch, drv, seed, port>>

NextSelect == LoadListing \/ TrySelector \/ ProcessElements

SpecSelect == InitUnits /\ [][NextSelect]_vars

\* The selectors that match at least one element of the page.
Matching(page) == {k \in 1..Len(selectors) : page[k] > 0}

\* The number of the first selector that matches; the last selector when
\* none does.
FirstMatching(page) ==
    IF Matching(page) = {} THEN Len(selectors)
    ELSE CHOOSE k \in Matching(page) : \A j \in Matching(page) : k <= j

\* The selectors consulted are the first ones in their listed order, up to
\* and including the first that matches.
ConsultedInOrder ==
    /\ sel.consulted = SubSeq(selectors, 1, Len(sel.consulted))
    /\ sel.pc \in {"process", "done"} => Len(sel.consulted) = FirstMatching(sel.page)
    /\ sel.pc = "select" =>
          /\ Len(sel.consulted) = sel.k - 1
          /\ \A j \in 1..Len(sel.consulted) : sel.page[j] = 0

-----------------------------------------------------------------------------
(* JobScraperWorker._save_job_batch on a batch of its own (main.py) *)

\* _save_job_batch is called with at most MaxBatch jobs.
MaxBatch == 3

Batches == UNION {[1..n -> JobData] : n \in 0..MaxBatch}

\* What self.db.save_job(job) does in the batch: it returns True or False,
\* or it raises.
SaveOutcomes == {"True", "False", "raise"}

\* _save_job_batch(jobs) is called: saved_count = 0.
SaveJobBatch ==
    /\ batch.pc = "idle"
    /\ \E b \in Batches :
          batch' = [pc |-> "loop", jobs |-> b, calls |-> <<>>, outcomes |-> <<>>,
                    saved_count |-> 0, logged |-> 0, slept |-> 0, ret |-> 0]
    /\ UNCHANGED <<storeVars, workerVars, cls>>
    /\ UNCHANGED <<agg, parse, scr, sel, drv, seed, port>>

\* One turn of `for job in jobs`.
BatchSave ==
    /\ batch.pc = "loop"
    /\ Len(batch.calls) < Len(batch.jobs)
    /\ \E o \in SaveOutcomes :
          LET job == batch.jobs[Len(batch.calls) + 1]
              step == save_job_batch_step(o = "True", o = "raise")
          IN  batch' = [batch EXCEPT !.calls = Append(@, job),
                                     !.outcomes = Append(@, o),
                                     !.saved_count = @ + step.saved,
                                     !.logged = @ + step.logged,
                                     !.slept = @ + step.sleep]
    /\ UNCHANGED <<storeVars, workerVars, cls>>
    /\ UNCHANGED <<agg, parse, scr, sel, drv, seed, port>>

\* return saved_count
BatchReturn ==
    /\ batch.pc = "loop"
    /\ Len(batch.calls) = Len(batch.jobs)
    /\ batch' = [batch EXCEPT !.pc = "returned", !.ret = batch.saved_count]
    /\ UNCHANGED <<storeVars, workerVars, cls>>
    /\ UNCHANGED <<agg, parse, scr, sel, drv, seed, port>>

NextBatch == SaveJobBatch \/ BatchSave \/ BatchReturn

SpecBatch == InitUnits /\ [][NextBatch]_vars

\* The number of calls of the batch with the outcome o.
Outcomes(o) == Cardinality({k \in 1..Len(batch.outcomes) : batch.outcomes[k] = o})

\* C18: _save_job_batch calls save_job once for every job of the batch, in
\* order; a call that raises is logged and the jobs after it are still
\* attempted; the value returned is the number of jobs for which save_job
\* returned True.
C18_BatchSavesEveryJob ==
    batch.pc # "idle" =>
        /\ batch.calls = SubSeq(batch.jobs, 1, Len(batch.calls))
        /\ batch.logged = Outcomes("raise")
        /\ batch.pc = "returned" =>
              /\ batch.calls = batch.jobs
              /\ batch.ret = Outcomes("True")

\* A batch of three has returned 1: the first save raised, the second
\* returned True, the third False.
C18_Witness ==
    /\ batch.pc = "returned"
    /\ batch.outcomes = <<"raise", "True", "False">>
    /\ batch.ret = 1

-----------------------------------------------------------------------------
(* JobScraper.driver and the entry points (job_scraper.py, run_scraper.py) *)

\* init_selenium and close_selenium are called at most MaxDriverCalls times
\* in the try block of an entry point.
MaxDriverCalls == 3

\* self.driver = None; the drivers are numbered from 1 as they are created.
NoDriver == 0

\* Mutant of init_selenium: a driver is created at every call.
init_selenium_always_creates(f, chrome) ==
    IF chrome = "ok"
    THEN [f EXCEPT !.driver = f.created + 1, !.created = @ + 1,
                   !.open = @ \cup {f.created + 1}, !.ret = TRUE]
    ELSE [f EXCEPT !.ret = FALSE, !.logged = @ + 1]

\* JobScraper.init_selenium: webdriver.Chrome is called only when no driver
\* is held; when it raises, the error is logged and False returned.
init_selenium(f, chrome) ==
    IF f.driver = NoDriver
    THEN IF chrome = "ok"
         THEN [f EXCEPT !.driver = f.created + 1, !.created = @ + 1,
                        !.open = @ \cup {f.created + 1}, !.ret = TRUE]
         ELSE [f EXCEPT !.ret = FALSE, !.logged = @ + 1]
    ELSE [f EXCEPT !.ret = TRUE]

\* JobScraper.close_selenium
close_selenium(f) ==
    IF f.driver # NoDriver
    THEN [f EXCEPT !.open = @ \ {f.driver}, !.driver = NoDriver]
    ELSE f

\* main() of job_scraper.py or of run_scraper.py: scraper = JobScraper().
EntryMain ==
    /\ drv.pc = "idle"
    /\ \E entry \in {"job_scraper.py", "run_scraper.py"} :
          drv' = [pc |-> "try", entry |-> entry, driver |-> NoDriver, open |-> {},
                  created |-> 0, calls |-> <<>>, ret |-> TRUE, logged |-> 0,
                  exit |-> None]
    /\ UNCHANGED <<storeVars, workerVars, cls>>
    /\ UNCHANGED <<agg, parse, scr, sel, batch, seed, port>>

\* A scraping method calls init_selenium.
InitSelenium ==
    /\ drv.pc = "try"
    /\ Len(drv.calls) < MaxDriverCalls
    /\ \E chrome \in {"ok", "fails"} :
          drv' = [init_selenium(drv, chrome) EXCEPT !.calls = Append(@, "init_selenium")]
    /\ UNCHANGED <<storeVars, workerVars, cls>>
    /\ UNCHANGED <<agg, parse, scr, sel, batch, seed, port>>

\* close_selenium is called before the run is over.
CloseSelenium ==
    /\ drv.pc = "try"
    /\ Len(drv.calls) < MaxDriverCalls
    /\ drv' = [close_selenium(drv) EXCEPT !.calls = Append(@, "close_selenium")]
    /\ UNCHANGED <<storeVars, workerVars, cls>>
    /\ UNCHANGED <<agg, parse, scr, sel, batch, seed, port>>

\* The try block is left: at its end, by KeyboardInterrupt or by another
\* exception; the except clauses print and fall through to finally.
LeaveTry ==
    /\ drv.pc = "try"
    /\ \E exit \in {"end", "KeyboardInterrupt", "Exception"} :
          drv' = [drv EXCEPT !.pc = "finally", !.exit = exit]
    /\ UNCHANGED <<storeVars, workerVars, cls>>
    /\ UNCHANGED <<agg, parse, scr, sel, batch, seed, port>>

\* finally: scraper.close_selenium()
Finally ==
    /\ drv.pc = "finally"
    /\ drv' = [close_selenium(drv) EXCEPT !.pc = "ended",
                                          !.calls = Append(@, "close_selenium")]
    /\ UNCHANGED <<storeVars, workerVars, cls>>
    /\ UNCHANGED <<agg, parse, scr, sel, batch, seed, port>>

NextDriver == EntryMain \/ InitSelenium \/ CloseSelenium \/ LeaveTry \/ Finally

SpecDriver == InitUnits /\ [][NextDriver]_vars

\* C19: at most one driver is open at a time, and it is the one JobScraper
\* holds; init_selenium creates a driver only when none is held;
\* close_selenium quits the held driver and resets the handle; an entry point
\* ends, however its try block was left, with close_selenium called, no
\* driver open and none held.
C19_AtMostOneDriver ==
    [][drv.pc # "idle" =>
          /\ Cardinality(drv.open) <= 1
          /\ drv.open = IF drv.driver = NoDriver THEN {} ELSE {drv.driver}
          /\ drv'.created > drv.created =>
                /\ drv.driver = NoDriver
                /\ drv'.calls = Append(drv.calls, "init_selenium")
          /\ drv'.calls = Append(drv.calls, "close_selenium") =>
                /\ drv'.driver = NoDriver
                /\ drv'.open = drv.open \ {drv.driver}
          /\ drv'.pc = "ended" =>
                /\ drv.pc = "finally"
                /\ drv'.calls = Append(drv.calls, "close_selenium")
                /\ drv'.open = {}
          /\ drv.pc = "finally" => drv'.pc = "ended"]_vars

\* A run that created a second driver after closing the first was
\* interrupted and has ended.
C19_Witness ==
    /\ drv.pc = "ended"
    /\ drv.exit = "KeyboardInterrupt"
    /\ drv.created = 2
    /\ drv.open = {}

-----------------------------------------------------------------------------
(* The seeding script (add_jobs_now.py) *)

\* jobs: the seed jobs, by title.
SeedJobs ==
    <<"Frontend Developer", "Coffee Shop Manager", "Marketing Assistant",
      "Data Analyst", "Graphic Designer", "Project Coordinator", "Restaurant Server">>

\* response.status_code == 201
Created == 201

\* What requests.post meets: the request raises (timeout, no connection), or
\* the API answers with a status and a body.  The bodies: a JSON object with
\* a job that has an id, with a job without id, without job, with job null,
\* and a body that is no JSON.
Answers ==
    {[raises |-> TRUE, status |-> 0, body |-> "none"]} \cup
    [raises : {FALSE}, status : {Created, 200, 401, 500},
     body : {"job_with_id", "job_without_id", "no_job", "job_null", "not_json"}]

\* add_job on an answer: (success, result) and whether it raised.
\* response.json() raises on a body that is no JSON, and
\* result.get('job', {}).get('id', 'unknown') raises on a job that is null;
\* both are caught by the except clause.
add_job(answer) ==
    IF answer.raises
    THEN [success |-> FALSE, result |-> "str(e)", raised |-> FALSE]
    ELSE IF answer.status = Created
         THEN CASE answer.body = "job_with_id" ->
                      [success |-> TRUE, result |-> "id", raised |-> FALSE]
                [] answer.body \in {"job_without_id", "no_job"} ->
                      [success |-> TRUE, result |-> "unknown", raised |-> FALSE]
                [] OTHER ->
                      [success |-> FALSE, result |-> "str(e)", raised |-> FALSE]
    ELSE [success |-> FALSE, result |-> "response.text", raised |-> FALSE]

\* main(): success_count = 0
SeedMain ==
    /\ seed.pc = "idle"
    /\ seed' = [pc |-> "loop", posts |-> <<>>, answer |-> [raises |-> FALSE, status |-> 0,
                                                          body |-> "none"],
                success |-> FALSE, raised |-> FALSE, success_count |-> 0,
                created |-> 0]
    /\ UNCHANGED <<storeVars, workerVars, cls>>
    /\ UNCHANGED <<agg, parse, scr, sel, batch, drv, port>>

\* One turn of `for i, job in enumerate(jobs, 1)`: the job is posted and the
\* result counted.  created counts the answers with status 201.
SeedPost ==
    /\ seed.pc = "loop"
    /\ Len(seed.posts) < Len(SeedJobs)
    /\ \E answer \in Answers :
          LET job == SeedJobs[Len(seed.posts) + 1]
              r == add_job(answer)
          IN  seed' = [seed EXCEPT !.posts = Append(@, job),
                                   !.answer = answer,
                                   !.success = r.success,
                                   !.raised = r.raised,
                                   !.success_count = IF r.success THEN @ + 1 ELSE @,
                                   !.created = IF ~answer.raises /\ answer.status = Created
                                               THEN @ + 1 ELSE @]
    /\ UNCHANGED <<storeVars, workerVars, cls>>
    /\ UNCHANGED <<agg, parse, scr, sel, batch, drv, port>>

\* print(f"Complete! Added {success_count}/{len(jobs)} jobs")
SeedReport ==
    /\ seed.pc = "loop"
    /\ Len(seed.posts) = Len(SeedJobs)
    /\ seed' = [seed EXCEPT !.pc = "reported"]
    /\ UNCHANGED <<storeVars, workerVars, cls>>
    /\ UNCHANGED <<agg, parse, scr, sel, batch, drv, port>>

NextSeed == SeedMain \/ SeedPost \/ SeedReport

SpecSeed == InitUnits /\ [][NextSeed]_vars

\* C20: add_job never raises and reports success exactly when the API
\* answers with status 201; main posts every seed job exactly once, in list
\* order, whether or not earlier posts failed, and the success count it
\* reports equals the number of 201 answers.
C20_SuccessIffCreated ==
    seed.pc # "idle" =>
        /\ ~seed.raised
        /\ seed.posts # <<>> =>
              (seed.success <=> (~seed.answer.raises /\ seed.answer.status = Created))
        /\ seed.posts = SubSeq(SeedJobs, 1, Len(seed.posts))
        /\ seed.pc = "reported" =>
              /\ seed.posts = SeedJobs
              /\ seed.success_count = seed.created

-----------------------------------------------------------------------------
(* C21: a city whose scrape fails                                           *)

\* C21: a city run in which the request for the listing page raised is
\* completed with status 'failed', jobs_found 0, jobs_added 0 and an error
\* text, and a run is completed with status 'completed' only when no request
\* of its scrape raised.
C21_ScrapeErrorLoggedFailed ==
    \A i \in 1..Len(runs) :
       runs[i].done =>
          /\ runs[i].request_failed =>
                /\ runs[i].status = "failed"
                /\ runs[i].found = 0
                /\ runs[i].added = 0
                /\ runs[i].error_message # None
          /\ runs[i].status = "completed" => ~runs[i].request_failed

-----------------------------------------------------------------------------
(* scrape_all_portals: the batch loop on the jobs of a city (main.py)       *)

\* scrape_jobs has returned at most MaxFound jobs.
MaxFound == 11

\* jobs[i:i + batch_size], with i counted from 0
BatchSlice(found, i) ==
    SubSeq(found, i + 1, IF i + batch_size < Len(found) THEN i + batch_size ELSE Len(found))

\* Mutant of pause_between: the worker sleeps after every batch.
pause_between_always(i, n) == BatchSleep

\* `if i + batch_size < len(jobs): time.sleep(5)`: how long the worker
\* sleeps after the batch that starts at i, of n jobs
pause_between(i, n) == IF i + batch_size < n THEN BatchSleep ELSE 0

\* _save_job_batch(batch), given how each save_job call of the batch ended:
\* the jobs passed to save_job, the count returned and the time slept.
RECURSIVE save_job_batch(_, _, _)
save_job_batch(b, outcomes, acc) ==
    IF Len(acc.calls) = Len(b) THEN acc
    ELSE LET k == Len(acc.calls) + 1
             step == save_job_batch_step(outcomes[k] = "True", outcomes[k] = "raise")
         IN  save_job_batch(b, outcomes,
                            [calls |-> Append(acc.calls, b[k]),
                             saved_count |-> acc.saved_count + step.saved,
                             slept |-> acc.slept + step.sleep])

\* scrape_jobs has returned the jobs 1..n: jobs_added = 0, and range(0,
\* len(jobs), batch_size) starts at 0.
PortalJobs ==
    /\ port.pc = "idle"
    /\ \E n \in 0..MaxFound :
          port' = [pc |-> "loop", jobs |-> [k \in 1..n |-> k], i |-> 0,
                   batches |-> <<>>, calls |-> <<>>, pauses |-> <<>>,
                   jobs_added |-> 0, slept |-> 0]
    /\ UNCHANGED <<storeVars, workerVars, cls>>
    /\ UNCHANGED <<agg, parse, scr, sel, batch, drv, seed>>

\* One turn of `for i in range(0, len(jobs), batch_size)`: the batch is
\* saved, its count is added, and the worker sleeps when a batch remains.
\* pauses records, for every pause, the number of save_job calls before it.
PortalBatch ==
    /\ port.pc = "loop"
    /\ port.i < Len(port.jobs)
    /\ LET b == BatchSlice(port.jobs, port.i)
           pause == pause_between(port.i, Len(port.jobs))
       IN  \E outcomes \in [1..Len(b) -> SaveOutcomes] :
              LET r == save_job_batch(b, outcomes,
                                      [calls |-> <<>>, saved_count |-> 0, slept |-> 0])
              IN  port' = [port EXCEPT
                              !.batches = Append(@, b),
                              !.calls = @ \o r.calls,
                              !.jobs_added = @ + r.saved_count,
                              !.slept = @ + r.slept + pause,
                              !.pauses = IF pause > 0
                                         THEN Append(@, Len(port.calls) + Len(r.calls))
                                         ELSE @,
                              !.i = @ + batch_size]
    /\ UNCHANGED <<storeVars, workerVars, cls>>
    /\ UNCHANGED <<agg, parse, scr, sel, batch, drv, seed>>

\* The range is exhausted: total_jobs_added += jobs_added.
PortalDone ==
    /\ port.pc = "loop"
    /\ port.i >= Len(port.jobs)
    /\ port' = [port EXCEPT !.pc = "saved"]
    /\ UNCHANGED <<storeVars, workerVars, cls>>
    /\ UNCHANGED <<agg, parse, scr, sel, batch, drv, seed>>

NextPortal == PortalJobs \/ PortalBatch \/ PortalDone

SpecPortal == InitUnits /\ [][NextPortal]_vars

RECURSIVE Flatten(_)
Flatten(seqs) == IF seqs = <<>> THEN <<>> ELSE seqs[1] \o Flatten(Tail(seqs))

\* C22: the jobs passed to save_job are the scraped jobs in scraped order,
\* each once when the loop is over; they are passed in consecutive batches
\* of one to five jobs, every batch but the last of five; and the worker
\* pauses after a batch exactly when jobs remain after it.
C22_EveryJobOnceInBatches ==
    port.pc # "idle" =>
        /\ port.calls = SubSeq(port.jobs, 1, Len(port.calls))
        /\ Flatten(port.batches) = port.calls
        /\ \A k \in 1..Len(port.batches) :
              /\ Len(port.batches[k]) \in 1..5
              /\ k < Len(port.batches) => Len(port.batches[k]) = 5
        /\ \A k \in 1..Len(port.pauses) : port.pauses[k] < Len(port.jobs)
        /\ Len(port.pauses) = Cardinality({k \in 1..Len(port.batches) :
                                              5 * k < Len(port.jobs)})
        /\ port.pc = "saved" => port.calls = port.jobs

\* Eleven jobs were saved in batches of five, five and one, with a pause
\* after the fifth and after the tenth save and none at the end.
C22_Witness ==
    /\ port.pc = "saved"
    /\ Len(port.jobs) = 11
    /\ Len(port.batches) = 3
    /\ Len(port.batches[3]) = 1
    /\ port.pauses = <<5, 10>>
    /\ port.jobs_added = 7

-----------------------------------------------------------------------------
(* C23: the cleanup that ends a scrape cycle                                *)

\* C23: a scrape cycle is left through cleanup_old_jobs only, and never by
\* an exception; the cleanup is reached when every configured city has been
\* processed, whatever failed on the way; it is one call of the storage
\* client with the cutoff 30 days before the current time; and when the call
\* fails the failure is logged and the cycle ends as it does otherwise.
C23_CycleEndsWithOneCleanup ==
    [][/\ pc' # "crashed"
       /\ (pc' \in {"exited", "poll"} /\ pc # "poll") => pc = "cleanup"
       /\ (pc' = "cleanup" /\ pc # "cleanup") =>
             /\ Len(runs') = Len(cities)
             /\ \A k \in 1..Len(runs') : runs'[k].done
       /\ pc = "cleanup" =>
             /\ pc' \in {"exited", "poll"}
             /\ cycles' = cycles + 1
             /\ last'.op = "cleanup_old_jobs"
             /\ last'.attempts = 1
             /\ last'.cutoff = now - 30 * 86400
             /\ last'.at = now
             /\ ~last'.raised
             /\ last'.raises > 0 => errlog' > errlog]_vars

\* A cycle has ended with a cleanup whose storage request failed, after both
\* cities were processed.
C23_Witness ==
    /\ pc = "exited"
    /\ cycles = 1
    /\ Len(runs) = 2
    /\ last.op = "cleanup_old_jobs"
    /\ last.raises = 1
    /\ last.ret = 0
    /\ errlog >= 1

-----------------------------------------------------------------------------
(* C24: the contact email of a listing, checked under SpecParse             *)

\* C24: when _extract_reply_email found an address on a detail page, the
\* email of the details and the contact_email of the record returned are
\* that address, whatever the description holds; the address of the
\* description is the email only when no reply email was found.
C24_ReplyEmailFirst ==
    (parse.pc \in {"build", "returned"} /\ parse.page.fetch = "ok") =>
        LET email == Get(parse.job_details, "email", None)
        IN  /\ parse.page.reply_email # None =>
                  /\ email = parse.page.reply_email
                  /\ parse.pc = "returned" =>
                        parse.ret[1].contact_email = parse.page.reply_email
            /\ parse.page.reply_email = None =>
                  email = IF parse.page.postingbody # None THEN parse.page.body_email
                          ELSE None
            /\ (email # None /\ email = parse.page.body_email) =>
                  parse.page.reply_email = None

\* A record was returned for a page with a reply email and another address
\* in its description: the contact email is the reply email.
C24_Witness ==
    /\ parse.pc = "returned"
    /\ parse.page.fetch = "ok"
    /\ parse.page.postingbody # None
    /\ parse.page.reply_email = "a@job.craigslist.org"
    /\ parse.page.body_email = "chef@acme.ca"
    /\ parse.ret[1].contact_email = "a@job.craigslist.org"

-----------------------------------------------------------------------------
(* C25: jobs_added and the rows inserted, checked under Spec                *)

\* The rows of the jobs table inserted while the city run was in progress.
InsertedDuring(run) ==
    {k \in 1..Len(jobs) : /\ jobs[k].created_at >= run.started_at
                          /\ jobs[k].created_at <= run.completed_at}

\* C25: save_job returns True exactly when its call inserted a row, and the
\* jobs_added recorded for a completed city run is the number of rows
\* inserted into the jobs table during that run.
C25_AddedEqualsInserted ==
    /\ (last.op = "save_job" /\ last.pc = "returned") =>
          (last.ret <=> Len(jobs) = Len(last.before) + 1)
    /\ \A i \in 1..Len(runs) :
          (runs[i].done /\ runs[i].status = "completed") =>
              runs[i].added = Cardinality(InsertedDuring(runs[i]))

-----------------------------------------------------------------------------
(* C26: the counts of a completed log row, checked under Spec               *)

\* The rows of scraping_logs that log_scrape_completion has written.
CompletedLogRows == {k \in 1..Len(logs) : logs[k].status # "running"}

\* C26: in every row of scraping_logs the worker has completed, jobs_added
\* is at least 0 and at most jobs_found, and jobs_found is at most
\* MAX_JOBS_PER_CITY.
C26_CountsOrdered ==
    \A k \in CompletedLogRows :
       /\ 0 <= logs[k].jobs_added
       /\ logs[k].jobs_added <= logs[k].jobs_found
       /\ logs[k].jobs_found <= max_jobs_per_city

\* One completed row has as many jobs found as MAX_JOBS_PER_CITY allows and
\* all of them added, another has a job found and none added.
C26_Witness ==
    \E k, m \in CompletedLogRows :
       /\ logs[k].jobs_found = max_jobs_per_city
       /\ logs[k].jobs_added = logs[k].jobs_found
       /\ logs[m].jobs_found = max_jobs_per_city
       /\ logs[m].jobs_added = 0

-----------------------------------------------------------------------------
(* C27: the rows of a cycle when scrape_all_portals returns, under Spec     *)

\* scrape_all_portals has returned.
CycleOver == pc \in {"exited", "poll"}

\* C27 as stated: when scrape_all_portals returns, no scraping_logs row
\* created during the cycle has status 'running'.
C27_NoRowLeftRunning ==
    CycleOver =>
        \A k \in 1..Len(runs) :
           runs[k].row # 0 => logs[runs[k].row].status \in {"completed", "failed"}

\* C27 amended: when scrape_all_portals returns, a row created during the
\* cycle has status 'completed' or 'failed' when log_scrape_start got the row
\* back and the update of log_scrape_completion was stored, and still has
\* status 'running' otherwise.
C27_RowLeftRunningOnlyAfterLogFailure ==
    CycleOver =>
        \A k \in 1..Len(runs) :
           runs[k].row # 0 =>
              /\ runs[k].done
              /\ logs[runs[k].row].status \in {"running", "completed", "failed"}
              /\ logs[runs[k].row].status # "running" <=>
                    /\ runs[k].start = "ok"
                    /\ runs[k].completion \in {"ok", "update_lost_reply"}

\* A cycle is over: the row of its first city is completed, and the row of
\* its second city, whose insert was stored without an answer, is still
\* 'running'.
C27_Witness ==
    /\ CycleOver
    /\ Len(runs) = 2
    /\ runs[1].row # 0
    /\ logs[runs[1].row].status = "completed"
    /\ runs[2].start = "insert_lost_reply"
    /\ runs[2].row # 0
    /\ logs[runs[2].row].status = "running"

-----------------------------------------------------------------------------
(* C28: the city of a record, checked under SpecParse                       *)

\* C28: a record built from a job link of a category page of a supported
\* city has that city as its city and the province of that city as its
\* province.
C28_RecordOfScrapedCity ==
    (parse.pc = "returned" /\ Len(parse.ret) = 1 /\ job_link(parse.link_element.href)) =>
        /\ parse.ret[1].city = parse.city
        /\ parse.ret[1].province =
              CASE parse.city = "vancouver" -> "BC"
                [] parse.city = "toronto"   -> "ON"
                [] parse.city = "calgary"   -> "AB"

-----------------------------------------------------------------------------
(* C29: cleanup_old_jobs of the two storage clients, checked under SpecStore *)

\* The jobs of tbl that are inactive.
Inactive(tbl) == {i \in 1..Len(tbl) : ~tbl[i].is_active}

\* C29: after a cleanup_old_jobs call whose update was answered, either
\* client, called on the jobs stored before the call with the same cutoff,
\* leaves the same jobs inactive and returns the same count, and the count
\* returned is the number of jobs the call changed from active to inactive.
C29_CleanupClientsAgree ==
    (last.op = "cleanup_old_jobs" /\ last.raises = 0) =>
        LET s == Supabase_cleanup_old_jobs(last.before, last.cutoff, last.at, "ok")
            p == Postgres_cleanup_old_jobs(last.before, last.cutoff, last.at, "ok")
        IN  /\ Inactive(s.jobs) = Inactive(p.jobs)
            /\ s.ret = p.ret
            /\ last.ret = Cardinality(Inactive(jobs) \ Inactive(last.before))

====
